---- MODULE Spec2Model ----
(***************************************************************************)
(* Attendance / grading consistency engine of the Attendance Management    *)
(* System, as implemented by database/01_init_schema.sql: the tables       *)
(* ClassSessions, SessionAttendance, SessionHourLog, Enrollments and the   *)
(* procedures sp_StartSession, sp_UpsertAttendanceOnRecognition and        *)
(* sp_FinalizeSession.                                                     *)
(*                                                                         *)
(* Spec     : the procedures are called one after another (each action is  *)
(*            one whole procedure call).                                   *)
(* SpecConc : two connections run the procedures statement by statement.   *)
(*            The procedures open no transaction and take no lock hints,   *)
(*            so every statement commits on its own and the statements of  *)
(*            two calls interleave; a MERGE decides MATCHED / NOT MATCHED  *)
(*            before it inserts, and without HOLDLOCK another connection   *)
(*            can insert the same key in between.                          *)
(*                                                                         *)
(* SpecIngest, SpecFinalize, SpecLong : one session that exists from the   *)
(*            start, with many events, with start and end instants around  *)
(*            the minute and hour boundaries, and left open for 514 hours. *)
(* SpecGrades : the computed columns of Enrollments and vw_Gradebook over  *)
(*            finalizes and grade edits.                                   *)
(* SpecCamera : the camera uplink of frontend/src/hooks/useCamera.js: the  *)
(*            capture interval, the pending JPEG encode and the socket's   *)
(*            send buffer.                                                 *)
(* SpecDashboard : the dashboard socket of the useDashboardSocket hook:    *)
(*            its sockets, ping interval and connection state.             *)
(* SpecSession : the useSession hook: startSession and finalizeSession     *)
(*            around their requests.                                       *)
(*                                                                         *)
(* Timestamps are DATETIME2(0): whole seconds, here seconds since an       *)
(* arbitrary origin.                                                       *)
(***************************************************************************)
EXTENDS Integers, FiniteSets, Sequences, TLC

(* ---------------------------- bounds ----------------------------------- *)
\* Recognition events applied in a behaviour of Spec, SpecIngest, SpecConc,
\* SpecConcIngest, SpecFinalize and SpecLong.
MaxEvents == 1
MaxIngestEvents == 3
MaxConcEvents == 1
MaxConcIngestEvents == 2
MaxFinalizeEvents == 1
MaxLongEvents == 1
MaxCameraDrops == 2
MaxSockets == 2
MaxDashboardSockets == 3

(* ------------------------ fixed master data ---------------------------- *)
NULL == -1

Students == {1, 2}
Courses == {1, 2}
UnknownCourse == 9

\* Enrollments rows (StudentID, CourseID): student 1 takes both courses,
\* student 2 only course 1.
Enrollments == {<<1, 1>>, <<2, 1>>, <<1, 2>>}

\* Courses.LateGraceMinutes: the column default / seed value for course 1,
\* a stricter course 2.
LateGraceMinutes == [c \in Courses |-> IF c = 1 THEN 10 ELSE 0]

\* Courses.MaxAllowedAbsentHours: the column default / seed value for course 1,
\* a lower threshold for course 2.
MaxAllowedAbsentHours == [c \in Courses |-> IF c = 1 THEN 8 ELSE 4]

\* Students.IsActive: student 1 is active, student 2 has been switched off.
StudentIsActive == [s \in Students |-> s = 1]

\* Courses.IsActive: course 1 is active, course 2 has been switched off.
CourseIsActive == [c \in Courses |-> c = 1]

\* Session identifiers handed out by NEWSEQUENTIALID().
SessionIds == {1, 2}

\* Connections of SpecConc.
Procs == {1, 2}

\* Instants, in seconds: what SYSUTCDATETIME() returns over a behaviour (the
\* start, one hour and 125 minutes later), the @StartedAt values callers
\* pass (the first and the last second of minute 0) and the @RecognizedAt
\* values they pass (minute 1, minute 11, and for SpecIngest also second 0
\* and minute 61).
ClockInstants == {0, 3600, 7500}
StartInstants == {0, 59}
EventInstants == {60, 660}
IngestEventInstants == {0, 60, 660, 3660}

\* Instants of SpecFinalize: sessions that start in minute 0 or minute 61 and
\* end 60, 61 or 125 minutes after the origin, or before they start.
FinalizeStartInstants == {0, 59, 3660}
FinalizeClockInstants == {0, 3600, 3660, 7500}

\* Instants of SpecLong: a session that is left open for 514 hours.
LongClockInstants == {0, 3600, 1850400}

SecondsPerMinute == 60
MinutesPerHour == 60
MaxRecursion == 512

\* Enrollments: the grade components are DECIMAL(5,2), held here in
\* hundredths; every component defaults to 0.
DefaultGrades ==
    [Quiz1 |-> 0, Quiz2 |-> 0, ProjectGrade |-> 0, AssignmentGrade |-> 0,
     MidtermGrade |-> 0, FinalExamGrade |-> 0]

\* The rows a grade edit writes: a RawTotal of 70.00, of 62.25 (60.00 after
\* nine absent hours), of 59.99, and of -4.00 (no CHECK constraint keeps a
\* component non-negative).
GradeRows ==
    {[Quiz1 |-> 1000, Quiz2 |-> 1000, ProjectGrade |-> 1000, AssignmentGrade |-> 1000,
      MidtermGrade |-> 1500, FinalExamGrade |-> 1500],
     [Quiz1 |-> 1000, Quiz2 |-> 1000, ProjectGrade |-> 1000, AssignmentGrade |-> 1000,
      MidtermGrade |-> 1000, FinalExamGrade |-> 1225],
     [Quiz1 |-> 999, Quiz2 |-> 1000, ProjectGrade |-> 1000, AssignmentGrade |-> 1000,
      MidtermGrade |-> 1000, FinalExamGrade |-> 1000],
     [Quiz1 |-> -500, Quiz2 |-> 0, ProjectGrade |-> 0, AssignmentGrade |-> 0,
      MidtermGrade |-> 0, FinalExamGrade |-> 100]}

\* HoursAbsentTotal an enrollment has accumulated over earlier sessions.
PriorAbsentHours == {0, 7, 9}

\* The limits of the AtRisk column.
PassingTotal == 60
AtRiskAbsentHours == 8

VARIABLES
    ClassSessions,      \* SessionID -> [CourseID, StartedAt, EndedAt, Status]
    SessionAttendance,  \* <<SessionID, StudentID>> -> attendance row
    SessionHourLog,     \* <<SessionID, StudentID, HourIndex>> -> hour row
    HoursAbsentTotal,   \* Enrollments.HoursAbsentTotal per (student, course)
    UpdatedAt,          \* Enrollments.UpdatedAt per (student, course)
    Grades,             \* Enrollments: the six grade components, in hundredths
    now,                \* SYSUTCDATETIME()
    last,               \* the last call and how it ended
    applied,            \* history: per (session, student) the events applied
    nEvents,            \* history: number of recognition events applied
    aggRuns,            \* history: per session, runs of the absence UPDATE
    pc,                 \* SpecConc: statement each connection is at
    loc,                \* SpecConc: local variables of each connection
    sockets,            \* useCamera: readyState of every camera socket created
    cameraWsRef,        \* useCamera: index of the socket referenced, 0 for null
    cameraTimerRef,     \* useCamera: TRUE while cameraTimerRef holds an interval
    intervals,          \* useCamera: capture intervals set and not cleared
    mediaPending,       \* useCamera: sockets whose onopen awaits getUserMedia
    mediaStreamRef,     \* useCamera: TRUE while mediaStreamRef holds a stream
    cameraActiveRef,    \* useCamera: cameraActiveRef.current
    cameraRunning,      \* useCamera: the cameraRunning state
    sendBusyRef,        \* useCamera: sendBusyRef.current
    bufferedAmount,     \* useCamera: bufferedAmount of the socket referenced
    cameraDrops,        \* useCamera: the cameraDrops state
    encodesInFlight,    \* history: toBlob calls whose callback has not run
    staleEncode,        \* history: an encode was pending when stopCamera ran
    camLast,            \* history: what the last camera step did
    dashSockets,        \* useDashboardSocket: readyState of every socket created
    dashboardWsRef,     \* useDashboardSocket: index of the socket referenced, 0 for null
    dashboardPingRef,   \* useDashboardSocket: TRUE while the ref holds an interval
    pingIntervals,      \* useDashboardSocket: ping intervals set and not cleared
    dashboardWsState,   \* useDashboardSocket: the dashboardWsState state
    dashLast,           \* history: what the last dashboard step did
    sessionId,          \* useSession: the sessionId state, 0 for ""
    busy,               \* useSession: [starting, finalizing]
    attendance,         \* useSession: "empty" or "loaded"
    calls,              \* useSession: per call slot, the request it awaits
    sessLast            \* history: how the last useSession call ended

dbvars == <<ClassSessions, SessionAttendance, SessionHourLog, HoursAbsentTotal, UpdatedAt, Grades>>
camvars == <<sockets, cameraWsRef, cameraTimerRef, intervals, mediaPending, mediaStreamRef,
             cameraActiveRef, cameraRunning, sendBusyRef, bufferedAmount, cameraDrops,
             encodesInFlight, staleEncode, camLast>>
dashvars == <<dashSockets, dashboardWsRef, dashboardPingRef, pingIntervals, dashboardWsState,
              dashLast>>
sessvars == <<sessionId, busy, attendance, calls, sessLast>>
hookvars == <<camvars, dashvars, sessvars>>
servervars == <<ClassSessions, SessionAttendance, SessionHourLog, HoursAbsentTotal, UpdatedAt,
                Grades, now, last, applied, nEvents, aggRuns, pc, loc>>
vars == <<ClassSessions, SessionAttendance, SessionHourLog, HoursAbsentTotal, UpdatedAt, Grades,
          now, last, applied, nEvents, aggRuns, pc, loc, camvars, dashvars, sessvars>>

(* ----------------------------- helpers --------------------------------- *)
ISNULL(v, d) == IF v = NULL THEN d ELSE v

\* DATEDIFF(MINUTE, a, b): the number of minute boundaries crossed from a to b.
DATEDIFF_MINUTE(a, b) == (b \div SecondsPerMinute) - (a \div SecondsPerMinute)

DelayMinutesMut(sessionStart, recognizedAt) ==
    DATEDIFF_MINUTE(sessionStart, recognizedAt)
\* @DelayMinutes, clamped at 0.
DelayMinutes(sessionStart, recognizedAt) ==
    LET d == DATEDIFF_MINUTE(sessionStart, recognizedAt)
    IN  IF d < 0 THEN 0 ELSE d

\* @HourIndex = @DelayMinutes / 60 (integer division).
HourIndex(delay) == delay \div MinutesPerHour

\* DATEADD(HOUR, n, t)
DATEADD_HOUR(n, t) == t + n * MinutesPerHour * SecondsPerMinute

\* @DurationMinutes of sp_FinalizeSession.
DurationMinutes(startAt, endAt) ==
    LET d == DATEDIFF_MINUTE(startAt, endAt)
    IN  IF d <= 0 THEN 1 ELSE d

TotalHoursMut(duration) == duration \div MinutesPerHour + 1
\* @TotalHours = CEILING(@DurationMinutes / 60.0), at least 1.
TotalHours(duration) ==
    LET h == (duration + MinutesPerHour - 1) \div MinutesPerHour
    IN  IF h < 1 THEN 1 ELSE h

\* The HourSeries CTE: 0, 1, ... while HourIndex + 1 < @TotalHours.
HourSeries(totalHours) == 0..(totalHours - 1)

(* ------------- Enrollments: the persisted computed columns ------------- *)
\* CAST(x AS DECIMAL(8,2)) of a value with four decimals, x in
\* ten-thousandths and the result in hundredths: rounds half away from zero.
CAST_DECIMAL_8_2(x) ==
    IF x >= 0 THEN (x + 50) \div 100 ELSE -((50 - x) \div 100)

PenaltyProductMut(hours) == hours * (-2500)
\* HoursAbsentTotal * 0.25, in ten-thousandths; HoursAbsentTotal is held in
\* whole hours.
PenaltyProduct(hours) == hours * 2500

\* AttendancePenalty AS CAST(HoursAbsentTotal * 0.25 AS DECIMAL(8,2))
AttendancePenalty(hours) == CAST_DECIMAL_8_2(PenaltyProduct(hours))

\* ISNULL(Quiz1,0) + ... + ISNULL(FinalExamGrade,0), in hundredths.
ComponentSum(g) ==
    g.Quiz1 + g.Quiz2 + g.ProjectGrade + g.AssignmentGrade + g.MidtermGrade
        + g.FinalExamGrade

\* RawTotal AS CAST(... AS DECIMAL(8,2)): the sum already has two decimals.
RawTotal(g) == CAST_DECIMAL_8_2(ComponentSum(g) * 100)

AdjustedCaseMut(g, hours) == ComponentSum(g) * 100 - PenaltyProduct(hours)
\* CASE WHEN (sum - (HoursAbsentTotal * 0.25)) < 0 THEN 0 ELSE ... END, in
\* ten-thousandths.
AdjustedCase(g, hours) ==
    LET v == ComponentSum(g) * 100 - PenaltyProduct(hours)
    IN  IF v < 0 THEN 0 ELSE v

\* AdjustedTotal AS CAST(CASE ... END AS DECIMAL(8,2))
AdjustedTotal(g, hours) == CAST_DECIMAL_8_2(AdjustedCase(g, hours))

AtRiskMut(g, hours) ==
    AdjustedCase(g, hours) < PassingTotal * 10000 \/ hours > AtRiskAbsentHours
\* AtRisk AS CAST(CASE WHEN (CASE ... END) < 60 OR HoursAbsentTotal >= 8 ...
AtRisk(g, hours) ==
    AdjustedCase(g, hours) < PassingTotal * 10000 \/ hours >= AtRiskAbsentHours

AtRiskByPolicyMut(g, hours, course) ==
    AdjustedTotal(g, hours) < PassingTotal * 100 \/ hours > MaxAllowedAbsentHours[course]
\* vw_Gradebook.AtRiskByPolicy: e.AdjustedTotal < 60 OR
\* e.HoursAbsentTotal >= c.MaxAllowedAbsentHours
AtRiskByPolicy(g, hours, course) ==
    AdjustedTotal(g, hours) < PassingTotal * 100 \/ hours >= MaxAllowedAbsentHours[course]

(* --------------------- sp_UpsertAttendanceOnRecognition ---------------- *)
\* WHEN MATCHED: FirstSeenAt
MatchedFirstSeenAt(target, recognizedAt) ==
    IF target.FirstSeenAt = NULL THEN recognizedAt
    ELSE IF recognizedAt < target.FirstSeenAt THEN recognizedAt
    ELSE target.FirstSeenAt

MatchedLastSeenAtMut(target, recognizedAt) == recognizedAt
\* WHEN MATCHED: LastSeenAt
MatchedLastSeenAt(target, recognizedAt) ==
    IF target.LastSeenAt = NULL THEN recognizedAt
    ELSE IF recognizedAt > target.LastSeenAt THEN recognizedAt
    ELSE target.LastSeenAt

MatchedIsLateMut(target, delay, grace) ==
    IF delay > grace THEN TRUE ELSE target.IsLate
\* WHEN MATCHED: IsLate
MatchedIsLate(target, delay, grace) ==
    IF target.FirstSeenAt = NULL /\ delay > grace THEN TRUE ELSE target.IsLate

MatchedArrivalDelayMut(target, delay) ==
    IF target.FirstSeenAt = NULL \/ delay < target.ArrivalDelayMinutes
    THEN delay ELSE target.ArrivalDelayMinutes
\* WHEN MATCHED: ArrivalDelayMinutes
MatchedArrivalDelay(target, delay) ==
    IF target.FirstSeenAt = NULL THEN delay ELSE target.ArrivalDelayMinutes

AttendanceMatchedMut(target, recognizedAt, delay, grace) ==
    [FirstSeenAt |-> MatchedFirstSeenAt(target, recognizedAt),
     LastSeenAt |-> MatchedLastSeenAt(target, recognizedAt),
     IsPresent |-> target.IsPresent,
     IsLate |-> MatchedIsLate(target, delay, grace),
     ArrivalDelayMinutes |-> MatchedArrivalDelay(target, delay)]
\* WHEN MATCHED THEN UPDATE of the SessionAttendance MERGE.
AttendanceMatched(target, recognizedAt, delay, grace) ==
    [FirstSeenAt |-> MatchedFirstSeenAt(target, recognizedAt),
     LastSeenAt |-> MatchedLastSeenAt(target, recognizedAt),
     IsPresent |-> TRUE,
     IsLate |-> MatchedIsLate(target, delay, grace),
     ArrivalDelayMinutes |-> MatchedArrivalDelay(target, delay)]

AttendanceNotMatchedMut(recognizedAt, delay, grace) ==
    [FirstSeenAt |-> recognizedAt,
     LastSeenAt |-> recognizedAt,
     IsPresent |-> TRUE,
     IsLate |-> (delay >= grace),
     ArrivalDelayMinutes |-> delay]
\* WHEN NOT MATCHED THEN INSERT of the SessionAttendance MERGE.
AttendanceNotMatched(recognizedAt, delay, grace) ==
    [FirstSeenAt |-> recognizedAt,
     LastSeenAt |-> recognizedAt,
     IsPresent |-> TRUE,
     IsLate |-> (delay > grace),
     ArrivalDelayMinutes |-> delay]

\* The SessionAttendance MERGE run without interference.
MergeAttendance(att, sid, stu, recognizedAt, delay, grace) ==
    LET k == <<sid, stu>>
    IN  IF k \in DOMAIN att
        THEN [att EXCEPT ![k] = AttendanceMatched(att[k], recognizedAt, delay, grace)]
        ELSE att @@ (k :> AttendanceNotMatched(recognizedAt, delay, grace))

HourRecognizedMut(hourStart) ==
    [HourStart |-> hourStart, IsPresent |-> FALSE, Source |-> "recognizer"]
\* The row both branches of the SessionHourLog MERGE leave behind.
HourRecognized(hourStart) ==
    [HourStart |-> hourStart, IsPresent |-> TRUE, Source |-> "recognizer"]

MergeHourLogMut(hl, sid, stu, hourIndex, hourStart) ==
    LET k == <<sid, stu, hourIndex>>
    IN  IF k \in DOMAIN hl THEN hl ELSE hl @@ (k :> HourRecognized(hourStart))
\* The SessionHourLog MERGE run without interference.
MergeHourLog(hl, sid, stu, hourIndex, hourStart) ==
    LET k == <<sid, stu, hourIndex>>
    IN  IF k \in DOMAIN hl
        THEN [hl EXCEPT ![k] = [@ EXCEPT !.IsPresent = TRUE, !.Source = "recognizer"]]
        ELSE hl @@ (k :> HourRecognized(hourStart))

(* ----------------------------- sp_FinalizeSession ---------------------- *)
IsFinalizedMut(status) == FALSE
\* IF @Status = N'finalized' RETURN
IsFinalized(status) == status = "finalized"

FinalizeUpdateMut(sessions, sid, endAt) ==
    [sessions EXCEPT ![sid] = [@ EXCEPT !.Status = "finalized"]]
\* UPDATE dbo.ClassSessions SET EndedAt = @EndAt, Status = N'finalized'
FinalizeUpdate(sessions, sid, endAt) ==
    [sessions EXCEPT ![sid] = [@ EXCEPT !.EndedAt = endAt, !.Status = "finalized"]]

\* The absent row the backfill inserts.
AbsentAttendance ==
    [FirstSeenAt |-> NULL, LastSeenAt |-> NULL, IsPresent |-> FALSE,
     IsLate |-> FALSE, ArrivalDelayMinutes |-> NULL]

\* The enrolled students the LEFT JOIN finds without a SessionAttendance row.
BackfillKeys(att, sid, course) ==
    {<<sid, e[1]>> : e \in {x \in Enrollments : x[2] = course}} \ DOMAIN att

BackfillAttendanceMut(att, sid, course) ==
    [k \in BackfillKeys(<< >>, sid, course) |-> AbsentAttendance] @@ att
\* INSERT INTO dbo.SessionAttendance ... LEFT JOIN ... WHERE sa.SessionID IS NULL
BackfillAttendance(att, sid, course) ==
    att @@ [k \in BackfillKeys(att, sid, course) |-> AbsentAttendance]

SeedKeysMut(hl, sid, course, totalHours) ==
    {<<sid, e[1], h>> : e \in {x \in Enrollments : x[2] = course},
                        h \in 0..totalHours} \ DOMAIN hl
\* The keys (enrolled student x HourSeries) that have no SessionHourLog row.
SeedKeys(hl, sid, course, totalHours) ==
    {<<sid, e[1], h>> : e \in {x \in Enrollments : x[2] = course},
                        h \in HourSeries(totalHours)} \ DOMAIN hl

\* The system-seeded absent row of hour k[3].
SeededHour(k, startAt) ==
    [HourStart |-> DATEADD_HOUR(k[3], startAt), IsPresent |-> FALSE, Source |-> "system"]

\* OPTION (MAXRECURSION 512): a series that needs more recursions terminates
\* the statement, which then inserts nothing.
SeriesTooLong(totalHours) == totalHours - 1 > MaxRecursion

SeedHourLogMut(hl, sid, course, startAt, totalHours) ==
    IF SeriesTooLong(totalHours)
    THEN hl
    ELSE [k \in SeedKeys(<< >>, sid, course, totalHours) |-> SeededHour(k, startAt)] @@ hl
\* INSERT INTO dbo.SessionHourLog ... CROSS JOIN HourSeries ... WHERE hl.SessionID IS NULL
SeedHourLog(hl, sid, course, startAt, totalHours) ==
    IF SeriesTooLong(totalHours)
    THEN hl
    ELSE hl @@ [k \in SeedKeys(hl, sid, course, totalHours) |-> SeededHour(k, startAt)]

AbsentHoursMut(hl, sid, stu) ==
    Cardinality({k \in DOMAIN hl : k[1] = sid /\ k[2] = stu})
\* SessionAbsence.AbsentHours: SUM(CASE WHEN hl.IsPresent = 0 THEN 1 ELSE 0 END)
AbsentHours(hl, sid, stu) ==
    Cardinality({k \in DOMAIN hl : k[1] = sid /\ k[2] = stu /\ ~hl[k].IsPresent})

\* The students the SessionAbsence CTE has a group for.
HasHourRows(hl, sid, stu) == \E k \in DOMAIN hl : k[1] = sid /\ k[2] = stu

AggregateAbsenceMut(hat, hl, sid, course) ==
    [e \in DOMAIN hat |->
        IF HasHourRows(hl, sid, e[1])
        THEN hat[e] + AbsentHours(hl, sid, e[1])
        ELSE hat[e]]
\* UPDATE e SET e.HoursAbsentTotal = e.HoursAbsentTotal + ISNULL(sa.AbsentHours, 0)
AggregateAbsence(hat, hl, sid, course) ==
    [e \in DOMAIN hat |->
        IF e[2] = course /\ HasHourRows(hl, sid, e[1])
        THEN hat[e] + AbsentHours(hl, sid, e[1])
        ELSE hat[e]]

\* ... e.UpdatedAt = SYSUTCDATETIME() of the same UPDATE.
StampUpdatedAt(upd, hl, sid, course, t) ==
    [e \in DOMAIN upd |->
        IF e[2] = course /\ HasHourRows(hl, sid, e[1]) THEN t ELSE upd[e]]

(* ------------------------------- Init ---------------------------------- *)
(* ------------------------ camera uplink (useCamera) -------------------- *)
\* const CAMERA_BUFFER_LIMIT = 3_000_000
CAMERA_BUFFER_LIMIT == 3000000

\* Sizes in bytes of the JPEG blobs toBlob hands to its callback; four frames
\* of this size take an idle socket to the limit and then above it.
BlobSizes == {1000000}

\* The hook after construction: no socket, no interval, nothing pending.
CameraInit ==
    /\ sockets = << >>
    /\ cameraWsRef = 0
    /\ cameraTimerRef = FALSE
    /\ intervals = 0
    /\ mediaPending = {}
    /\ mediaStreamRef = FALSE
    /\ cameraActiveRef = FALSE
    /\ cameraRunning = FALSE
    /\ sendBusyRef = FALSE
    /\ bufferedAmount = 0
    /\ cameraDrops = 0
    /\ encodesInFlight = 0
    /\ staleEncode = FALSE
    /\ camLast = "none"

\* cameraWsRef.current ? cameraWsRef.current.readyState : "null"
RefState == IF cameraWsRef = 0 THEN "null" ELSE sockets[cameraWsRef]

TickOutcomeMut(active, ws, ready, sendBusy, buffered) ==
    IF ~active THEN "return_inactive"
    ELSE IF ws # "OPEN" THEN "return_not_open"
    ELSE IF ~ready THEN "return_not_ready"
    ELSE IF buffered > CAMERA_BUFFER_LIMIT THEN "dropped"
    ELSE "encoding"
\* The early returns of the interval callback, in the order of the code.
TickOutcome(active, ws, ready, sendBusy, buffered) ==
    IF ~active THEN "return_inactive"
    ELSE IF ws # "OPEN" THEN "return_not_open"
    ELSE IF ~ready THEN "return_not_ready"
    ELSE IF sendBusy THEN "return_busy"
    ELSE IF buffered > CAMERA_BUFFER_LIMIT THEN "dropped"
    ELSE "encoding"

\* cameraWsRef.current.close(): a socket that is connecting or open starts
\* closing; its close event comes later.
CloseRef(socks, ref) ==
    IF ref # 0 /\ socks[ref] \in {"CONNECTING", "OPEN"}
    THEN [socks EXCEPT ![ref] = "CLOSING"]
    ELSE socks

\* The assignments of stopCamera, socks being the sockets as the event that
\* called it left them; sendBusyRef and cameraDrops are not reset and
\* nothing cancels a pending toBlob or getUserMedia.
StopEffects(socks) ==
    /\ cameraActiveRef' = FALSE
    /\ intervals' = IF cameraTimerRef THEN intervals - 1 ELSE intervals
    /\ cameraTimerRef' = FALSE
    /\ mediaStreamRef' = FALSE
    /\ sockets' = CloseRef(socks, cameraWsRef)
    /\ cameraWsRef' = 0
    /\ bufferedAmount' = 0
    /\ cameraRunning' = FALSE
    /\ staleEncode' = (encodesInFlight > 0)

\* startCamera with a session id: the guard is cameraActiveRef, which is set
\* only once getUserMedia has completed; the new socket replaces the
\* reference whatever it held.
startCamera ==
    /\ ~cameraActiveRef
    /\ Len(sockets) < MaxSockets
    /\ sockets' = Append(sockets, "CONNECTING")
    /\ cameraWsRef' = Len(sockets) + 1
    /\ bufferedAmount' = 0
    /\ camLast' = "start"
    /\ UNCHANGED <<cameraTimerRef, intervals, mediaPending, mediaStreamRef, cameraActiveRef,
                   cameraRunning, sendBusyRef, cameraDrops, encodesInFlight, staleEncode>>
    /\ UNCHANGED <<servervars, dashvars, sessvars>>

\* ws.onopen of socket id, up to its await of getUserMedia.
WsOnOpen(id) ==
    /\ id \in DOMAIN sockets
    /\ sockets[id] = "CONNECTING"
    /\ sockets' = [sockets EXCEPT ![id] = "OPEN"]
    /\ mediaPending' = mediaPending \cup {id}
    /\ camLast' = "open"
    /\ UNCHANGED <<cameraWsRef, cameraTimerRef, intervals, mediaStreamRef, cameraActiveRef,
                   cameraRunning, sendBusyRef, bufferedAmount, cameraDrops, encodesInFlight,
                   staleEncode>>
    /\ UNCHANGED <<servervars, dashvars, sessvars>>

\* The rest of ws.onopen of socket id: with the media stream playing the
\* interval is set, otherwise the catch block calls stopCamera.
MediaReady(id, mediaOk) ==
    /\ id \in mediaPending
    /\ mediaPending' = mediaPending \ {id}
    /\ IF mediaOk
       THEN /\ mediaStreamRef' = TRUE
            /\ cameraActiveRef' = TRUE
            /\ cameraRunning' = TRUE
            /\ cameraTimerRef' = TRUE
            /\ intervals' = intervals + 1
            /\ camLast' = "streaming"
            /\ UNCHANGED <<sockets, cameraWsRef, bufferedAmount, staleEncode>>
       ELSE /\ StopEffects(sockets)
            /\ camLast' = "start_failed"
    /\ UNCHANGED <<sendBusyRef, cameraDrops, encodesInFlight>>
    /\ UNCHANGED <<servervars, dashvars, sessvars>>

\* The callback of setInterval, of any interval that is still set.
CaptureTick(ready) ==
    /\ intervals > 0
    /\ cameraDrops < MaxCameraDrops
    /\ LET outcome == TickOutcome(cameraActiveRef, RefState, ready, sendBusyRef,
                                  bufferedAmount)
       IN  /\ camLast' = outcome
           /\ cameraDrops' = IF outcome = "dropped" THEN cameraDrops + 1 ELSE cameraDrops
           /\ sendBusyRef' = IF outcome = "encoding" THEN TRUE ELSE sendBusyRef
           /\ encodesInFlight' = IF outcome = "encoding" THEN encodesInFlight + 1
                                 ELSE encodesInFlight
    /\ UNCHANGED <<sockets, cameraWsRef, cameraTimerRef, intervals, mediaPending,
                   mediaStreamRef, cameraActiveRef, cameraRunning, bufferedAmount, staleEncode>>
    /\ UNCHANGED <<servervars, dashvars, sessvars>>

\* The callback of captureCanvas.toBlob; blob is NULL where encoding failed.
BlobReady(blob) ==
    /\ encodesInFlight > 0
    /\ sendBusyRef' = FALSE
    /\ encodesInFlight' = encodesInFlight - 1
    /\ staleEncode' = FALSE
    /\ IF blob # NULL /\ RefState = "OPEN"
       THEN /\ bufferedAmount' = bufferedAmount + blob
            /\ camLast' = "sent"
       ELSE /\ UNCHANGED bufferedAmount
            /\ camLast' = "blob_discarded"
    /\ UNCHANGED <<sockets, cameraWsRef, cameraTimerRef, intervals, mediaPending,
                   mediaStreamRef, cameraActiveRef, cameraRunning, cameraDrops>>
    /\ UNCHANGED <<servervars, dashvars, sessvars>>

\* The browser hands queued bytes of the socket to the network.
NetworkDrain ==
    /\ RefState = "OPEN"
    /\ bufferedAmount > 0
    /\ \E b \in BlobSizes : bufferedAmount' = IF bufferedAmount > b THEN bufferedAmount - b ELSE 0
    /\ camLast' = "drained"
    /\ UNCHANGED <<sockets, cameraWsRef, cameraTimerRef, intervals, mediaPending,
                   mediaStreamRef, cameraActiveRef, cameraRunning, sendBusyRef, cameraDrops,
                   encodesInFlight, staleEncode>>
    /\ UNCHANGED <<servervars, dashvars, sessvars>>

\* The connection of socket id is lost: readyState leaves OPEN before the
\* close event is delivered.
WsDrop(id) ==
    /\ id \in DOMAIN sockets
    /\ sockets[id] \in {"CONNECTING", "OPEN"}
    /\ sockets' = [sockets EXCEPT ![id] = "CLOSING"]
    /\ camLast' = "disconnected"
    /\ UNCHANGED <<cameraWsRef, cameraTimerRef, intervals, mediaPending, mediaStreamRef,
                   cameraActiveRef, cameraRunning, sendBusyRef, bufferedAmount, cameraDrops,
                   encodesInFlight, staleEncode>>
    /\ UNCHANGED <<servervars, dashvars, sessvars>>

\* ws.onclose of socket id calls stopCamera, whichever socket is referenced.
WsOnClose(id) ==
    /\ id \in DOMAIN sockets
    /\ sockets[id] = "CLOSING"
    /\ StopEffects([sockets EXCEPT ![id] = "CLOSED"])
    /\ camLast' = "closed"
    /\ UNCHANGED <<mediaPending, sendBusyRef, cameraDrops, encodesInFlight>>
    /\ UNCHANGED <<servervars, dashvars, sessvars>>

\* stopCamera called by the page (toggle, finalize, unmount).
stopCamera ==
    /\ StopEffects(sockets)
    /\ camLast' = "stopped"
    /\ UNCHANGED <<mediaPending, sendBusyRef, cameraDrops, encodesInFlight>>
    /\ UNCHANGED <<servervars, dashvars, sessvars>>

NextCamera ==
    \/ startCamera
    \/ \E id \in 1..MaxSockets : WsOnOpen(id)
    \/ \E id \in 1..MaxSockets, mediaOk \in BOOLEAN : MediaReady(id, mediaOk)
    \/ \E ready \in BOOLEAN : CaptureTick(ready)
    \/ \E blob \in BlobSizes \cup {NULL} : BlobReady(blob)
    \/ NetworkDrain
    \/ \E id \in 1..MaxSockets : WsDrop(id)
    \/ \E id \in 1..MaxSockets : WsOnClose(id)
    \/ stopCamera

(* ------------------ dashboard socket (useDashboardSocket) -------------- *)
\* The hook after construction.
DashboardInit ==
    /\ dashSockets = << >>
    /\ dashboardWsRef = 0
    /\ dashboardPingRef = FALSE
    /\ pingIntervals = 0
    /\ dashboardWsState = "disconnected"
    /\ dashLast = "none"

\* The assignments of closeDashboardSocket, socks being the sockets as the
\* caller left them.
CloseDashboardEffects(socks) ==
    /\ pingIntervals' = IF dashboardPingRef THEN pingIntervals - 1 ELSE pingIntervals
    /\ dashboardPingRef' = FALSE
    /\ dashSockets' = CloseRef(socks, dashboardWsRef)
    /\ dashboardWsRef' = 0

\* closeDashboardSocket called by the page or on unmount.
closeDashboardSocket ==
    /\ CloseDashboardEffects(dashSockets)
    /\ dashboardWsState' = "disconnected"
    /\ dashLast' = "closed_by_page"
    /\ UNCHANGED <<servervars, camvars, sessvars>>

\* connectDashboardSocket: closeDashboardSocket(), then a new socket that
\* takes the reference, and the state 'connecting'.
connectDashboardSocket ==
    /\ Len(dashSockets) < MaxDashboardSockets
    /\ pingIntervals' = IF dashboardPingRef THEN pingIntervals - 1 ELSE pingIntervals
    /\ dashboardPingRef' = FALSE
    /\ dashSockets' = Append(CloseRef(dashSockets, dashboardWsRef), "CONNECTING")
    /\ dashboardWsRef' = Len(dashSockets) + 1
    /\ dashboardWsState' = "connecting"
    /\ dashLast' = "connect"
    /\ UNCHANGED <<servervars, camvars, sessvars>>

\* ws.onclose = () => setDashboardWsState('disconnected'), of any socket.
WsStateOnClose(id, ref, state) == "disconnected"

\* ws.onopen of socket id: 'connected', and the ping interval is set.
DashOnOpen(id) ==
    /\ id \in DOMAIN dashSockets
    /\ dashSockets[id] = "CONNECTING"
    /\ dashSockets' = [dashSockets EXCEPT ![id] = "OPEN"]
    /\ dashboardWsState' = "connected"
    /\ dashboardPingRef' = TRUE
    /\ pingIntervals' = pingIntervals + 1
    /\ UNCHANGED dashboardWsRef
    /\ dashLast' = "open"
    /\ UNCHANGED <<servervars, camvars, sessvars>>

\* The connection of socket id fails or is lost; where it fails ws.onerror
\* sets 'error'. The close event is delivered later.
DashDrop(id, failed) ==
    /\ id \in DOMAIN dashSockets
    /\ dashSockets[id] \in {"CONNECTING", "OPEN"}
    /\ dashSockets' = [dashSockets EXCEPT ![id] = "CLOSING"]
    /\ dashboardWsState' = IF failed THEN "error" ELSE dashboardWsState
    /\ UNCHANGED <<dashboardWsRef, dashboardPingRef, pingIntervals>>
    /\ dashLast' = "dropped"
    /\ UNCHANGED <<servervars, camvars, sessvars>>

\* ws.onclose of socket id.
DashOnClose(id) ==
    /\ id \in DOMAIN dashSockets
    /\ dashSockets[id] = "CLOSING"
    /\ dashSockets' = [dashSockets EXCEPT ![id] = "CLOSED"]
    /\ dashboardWsState' = WsStateOnClose(id, dashboardWsRef, dashboardWsState)
    /\ UNCHANGED <<dashboardWsRef, dashboardPingRef, pingIntervals>>
    /\ dashLast' = "close_event"
    /\ UNCHANGED <<servervars, camvars, sessvars>>

\* The callback of the ping interval, which closes over the socket that is
\* referenced for as long as the interval is set.
PingTick ==
    /\ pingIntervals > 0
    /\ dashLast' = IF dashSockets[dashboardWsRef] = "OPEN" THEN "ping_sent" ELSE "ping_skipped"
    /\ UNCHANGED <<dashSockets, dashboardWsRef, dashboardPingRef, pingIntervals,
                   dashboardWsState>>
    /\ UNCHANGED <<servervars, camvars, sessvars>>

NextDashboard ==
    \/ connectDashboardSocket
    \/ closeDashboardSocket
    \/ \E id \in 1..MaxDashboardSockets : DashOnOpen(id)
    \/ \E id \in 1..MaxDashboardSockets, failed \in BOOLEAN : DashDrop(id, failed)
    \/ \E id \in 1..MaxDashboardSockets : DashOnClose(id)
    \/ PingTick

(* --------------------------- session hook (useSession) ----------------- *)
\* Calls of startSession / finalizeSession that can be awaiting their
\* request at the same time.
CallSlots == {1, 2}

\* The course ids the page passes to the hook; 0 is the empty string.
HookCourseIds == {0} \cup Courses

\* The hook after construction.
SessionHookInit ==
    /\ sessionId = 0
    /\ busy = [starting |-> FALSE, finalizing |-> FALSE]
    /\ attendance = "empty"
    /\ calls = [c \in CallSlots |-> [kind |-> "idle", sid |-> 0]]
    /\ sessLast = "none"

\* startSession up to its await: with an empty courseId it returns null.
startSession(c, courseId) ==
    /\ calls[c].kind = "idle"
    /\ IF courseId = 0
       THEN /\ sessLast' = "start_null"
            /\ UNCHANGED <<sessionId, busy, attendance, calls>>
       ELSE /\ busy' = [busy EXCEPT !.starting = TRUE]
            /\ calls' = [calls EXCEPT ![c] = [kind |-> "start", sid |-> 0]]
            /\ sessLast' = "start_pending"
            /\ UNCHANGED <<sessionId, attendance>>
    /\ UNCHANGED <<servervars, camvars, dashvars>>

\* startSession after its await: try, catch (rethrow) and finally.
StartSettles(c, ok, sid) ==
    /\ calls[c].kind = "start"
    /\ sessionId' = IF ok THEN sid ELSE sessionId
    /\ attendance' = IF ok THEN "empty" ELSE attendance
    /\ sessLast' = IF ok THEN "start_resolved" ELSE "start_rejected"
    /\ busy' = [busy EXCEPT !.starting = FALSE]
    /\ calls' = [calls EXCEPT ![c] = [kind |-> "idle", sid |-> 0]]
    /\ UNCHANGED <<servervars, camvars, dashvars>>

\* finalizeSession up to its await: with an empty sessionId it returns null.
finalizeSession(c) ==
    /\ calls[c].kind = "idle"
    /\ IF sessionId = 0
       THEN /\ sessLast' = "finalize_null"
            /\ UNCHANGED <<sessionId, busy, attendance, calls>>
       ELSE /\ busy' = [busy EXCEPT !.finalizing = TRUE]
            /\ calls' = [calls EXCEPT ![c] = [kind |-> "finalize", sid |-> sessionId]]
            /\ sessLast' = "finalize_pending"
            /\ UNCHANGED <<sessionId, attendance>>
    /\ UNCHANGED <<servervars, camvars, dashvars>>

SessionIdAfterFinalizeMut(current, ok) == 0
\* setSessionId("") is the statement after the await, inside try.
SessionIdAfterFinalize(current, ok) == IF ok THEN 0 ELSE current

\* finalizeSession after its await: try, catch (rethrow) and finally.
FinalizeSettles(c, ok) ==
    /\ calls[c].kind = "finalize"
    /\ sessionId' = SessionIdAfterFinalize(sessionId, ok)
    /\ sessLast' = IF ok THEN "finalize_resolved" ELSE "finalize_rejected"
    /\ busy' = [busy EXCEPT !.finalizing = FALSE]
    /\ calls' = [calls EXCEPT ![c] = [kind |-> "idle", sid |-> 0]]
    /\ UNCHANGED attendance
    /\ UNCHANGED <<servervars, camvars, dashvars>>

\* refreshAttendance for the current session, request and response.
refreshAttendance(ok) ==
    /\ sessionId # 0
    /\ attendance' = IF ok THEN "loaded" ELSE attendance
    /\ sessLast' = "attendance_refreshed"
    /\ UNCHANGED <<sessionId, busy, calls>>
    /\ UNCHANGED <<servervars, camvars, dashvars>>

NextSession ==
    \/ \E c \in CallSlots, courseId \in HookCourseIds : startSession(c, courseId)
    \/ \E c \in CallSlots, ok \in BOOLEAN, sid \in SessionIds : StartSettles(c, ok, sid)
    \/ \E c \in CallSlots : finalizeSession(c)
    \/ \E c \in CallSlots, ok \in BOOLEAN : FinalizeSettles(c, ok)
    \/ \E ok \in BOOLEAN : refreshAttendance(ok)

Init ==
    /\ CameraInit
    /\ DashboardInit
    /\ SessionHookInit
    /\ ClassSessions = << >>
    /\ SessionAttendance = << >>
    /\ SessionHourLog = << >>
    /\ HoursAbsentTotal = [e \in Enrollments |-> 0]
    /\ UpdatedAt = [e \in Enrollments |-> 0]
    /\ Grades = [e \in Enrollments |-> DefaultGrades]
    /\ now = 0
    /\ last = "none"
    /\ applied = << >>
    /\ nEvents = 0
    /\ aggRuns = [s \in SessionIds |-> 0]
    /\ pc = [p \in Procs |-> "idle"]
    /\ loc = [p \in Procs |-> << >>]

AllIdle == \A p \in Procs : pc[p] = "idle"

\* The history of (session, student) extended by one applied event: the
\* delay of the first event applied, every recognized_at applied and every
\* hour index an event was applied to.
Record(hist, sid, stu, recognizedAt, delay, hourIndex) ==
    LET k == <<sid, stu>>
    IN  IF k \in DOMAIN hist
        THEN [hist EXCEPT ![k] = [@ EXCEPT !.ats = @ \cup {recognizedAt},
                                           !.hours = @ \cup {hourIndex}]]
        ELSE hist @@ (k :> [firstDelay |-> delay, ats |-> {recognizedAt},
                            hours |-> {hourIndex}])

\* What a call hands back to its caller: the error one of its statements
\* raised, or nothing.  The procedures have no result set and no RETURN
\* value, and raise no error of their own.
Returned(outcome) ==
    CASE outcome \in {"start_fk_error", "recognize_fk_error"} -> "error 547"
      [] outcome \in {"recognize_duplicate_key", "finalize_duplicate_key"} -> "error 2627"
      [] outcome = "finalize_max_recursion" -> "error 530"
      [] OTHER -> "no error"

(* --------------------------- the clock -------------------------------- *)
\* SYSUTCDATETIME() moves on to one of the given instants.
TickTo(instants) ==
    /\ \E t \in instants : t > now /\ now' = t
    /\ UNCHANGED hookvars
    /\ UNCHANGED <<dbvars, last, applied, nEvents, aggRuns, pc, loc>>

Tick == TickTo(ClockInstants)

(* ------------------------- sp_StartSession ----------------------------- *)
\* NEWSEQUENTIALID(): a fresh identifier.
NewSessionId(sessions) == Cardinality(DOMAIN sessions) + 1

InsertSessionMut(sessions, course, startedAt) ==
    sessions @@ (NewSessionId(sessions) :>
        [CourseID |-> course, StartedAt |-> startedAt, EndedAt |-> startedAt,
         Status |-> "active"])
\* INSERT INTO dbo.ClassSessions (SessionID, CourseID, StartedAt, Status)
InsertSession(sessions, course, startedAt) ==
    sessions @@ (NewSessionId(sessions) :>
        [CourseID |-> course, StartedAt |-> startedAt, EndedAt |-> NULL,
         Status |-> "active"])

\* sp_StartSession is one INSERT; FK_ClassSessions_Course rejects a CourseID
\* that is not in Courses.
sp_StartSession(course, startedAt) ==
    /\ AllIdle
    /\ NewSessionId(ClassSessions) \in SessionIds
    /\ IF course \notin Courses
       THEN /\ last' = "start_fk_error"
            /\ UNCHANGED dbvars
       ELSE /\ ClassSessions' = InsertSession(ClassSessions, course, ISNULL(startedAt, now))
            /\ last' = "start_created"
            /\ UNCHANGED <<SessionAttendance, SessionHourLog, HoursAbsentTotal, UpdatedAt, Grades>>
    /\ UNCHANGED hookvars
    /\ UNCHANGED <<now, applied, nEvents, aggRuns, pc, loc>>

(* -------------------- sp_UpsertAttendanceOnRecognition ----------------- *)
\* SELECT @SessionStart = cs.StartedAt ... WHERE cs.SessionID = @SessionID:
\* the variable stays NULL when no row matches.
LookupSessionStart(sessions, sid) ==
    IF sid \in DOMAIN sessions THEN sessions[sid].StartedAt ELSE NULL

UnknownSessionMut(sessionStart) == FALSE
\* IF @SessionStart IS NULL RETURN
UnknownSession(sessionStart) == sessionStart = NULL

\* FK_SessionAttendance_Session and FK_SessionHourLog_Session reject a row
\* whose SessionID is not in ClassSessions.
sp_UpsertAttendanceOnRecognition(sid, stu, recognizedAtArg) ==
    /\ AllIdle
    /\ IF UnknownSession(LookupSessionStart(ClassSessions, sid))
       THEN /\ last' = "recognize_return_unknown"
            /\ UNCHANGED <<dbvars, applied, nEvents>>
       ELSE IF sid \notin DOMAIN ClassSessions
       THEN /\ last' = "recognize_fk_error"
            /\ UNCHANGED <<dbvars, applied, nEvents>>
       ELSE LET recognizedAt == ISNULL(recognizedAtArg, now)
                sessionStart == ClassSessions[sid].StartedAt
                grace == LateGraceMinutes[ClassSessions[sid].CourseID]
                delay == DelayMinutes(sessionStart, recognizedAt)
                hourIndex == HourIndex(delay)
                hourStart == DATEADD_HOUR(hourIndex, sessionStart)
            IN  /\ SessionAttendance' =
                       MergeAttendance(SessionAttendance, sid, stu, recognizedAt, delay, grace)
                /\ SessionHourLog' =
                       MergeHourLog(SessionHourLog, sid, stu, hourIndex, hourStart)
                /\ applied' = Record(applied, sid, stu, recognizedAt, delay, hourIndex)
                /\ nEvents' = nEvents + 1
                /\ last' = "recognize_applied"
                /\ UNCHANGED <<ClassSessions, HoursAbsentTotal, UpdatedAt, Grades>>
    /\ UNCHANGED hookvars
    /\ UNCHANGED <<now, aggRuns, pc, loc>>

(* --------------------------- sp_FinalizeSession ------------------------ *)
\* How a call of sp_FinalizeSession that ran its statements one after another
\* ends: the error of the seeding statement goes to the caller, the
\* statements after it have run.
SeedOutcome(totalHours) ==
    IF SeriesTooLong(totalHours) THEN "finalize_max_recursion" ELSE "finalize_aggregated"

sp_FinalizeSession(sid) ==
    /\ AllIdle
    /\ IF sid \notin DOMAIN ClassSessions
       THEN /\ last' = "finalize_return_unknown"
            /\ UNCHANGED <<dbvars, aggRuns>>
       ELSE IF IsFinalized(ClassSessions[sid].Status)
       THEN /\ last' = "finalize_return_finalized"
            /\ UNCHANGED <<dbvars, aggRuns>>
       ELSE LET course == ClassSessions[sid].CourseID
                startAt == ClassSessions[sid].StartedAt
                endAt == ISNULL(ClassSessions[sid].EndedAt, now)
                totalHours == TotalHours(DurationMinutes(startAt, endAt))
                att1 == BackfillAttendance(SessionAttendance, sid, course)
                hl1 == SeedHourLog(SessionHourLog, sid, course, startAt, totalHours)
            IN  /\ ClassSessions' = FinalizeUpdate(ClassSessions, sid, endAt)
                /\ SessionAttendance' = att1
                /\ SessionHourLog' = hl1
                /\ HoursAbsentTotal' = AggregateAbsence(HoursAbsentTotal, hl1, sid, course)
                /\ UpdatedAt' = StampUpdatedAt(UpdatedAt, hl1, sid, course, now)
                /\ aggRuns' = [aggRuns EXCEPT ![sid] = @ + 1]
                /\ last' = SeedOutcome(totalHours)
    /\ UNCHANGED hookvars
    /\ UNCHANGED <<Grades, now, applied, nEvents, pc, loc>>

(* ----------------------------- grade edit ------------------------------ *)
\* The six components of one enrollment are replaced by the values the
\* gradebook editor sends.
GradeEdit(e, row) ==
    /\ AllIdle
    /\ Grades' = [Grades EXCEPT ![e] = row]
    /\ last' = "grades_saved"
    /\ UNCHANGED hookvars
    /\ UNCHANGED <<ClassSessions, SessionAttendance, SessionHourLog, HoursAbsentTotal,
                   UpdatedAt, now, applied, nEvents, aggRuns, pc, loc>>

(* ------------------------ serial specification ------------------------- *)
Next ==
    \/ Tick
    \/ \E c \in Courses \cup {UnknownCourse}, t \in StartInstants \cup {NULL} :
          sp_StartSession(c, t)
    \/ \E sid \in SessionIds, stu \in Students, t \in EventInstants \cup {NULL} :
          nEvents < MaxEvents /\ sp_UpsertAttendanceOnRecognition(sid, stu, t)
    \/ \E sid \in SessionIds : sp_FinalizeSession(sid)

Spec == Init /\ [][Next]_vars

\* The camera hook alone, beside an idle database.
SpecCamera == Init /\ [][NextCamera]_vars

\* The dashboard socket hook alone.
SpecDashboard == Init /\ [][NextDashboard]_vars

\* The session hook alone.
SpecSession == Init /\ [][NextSession]_vars

(* ------------- one session, a stream of recognition events ------------- *)
\* The state sp_StartSession(c, t) leaves behind.
InitIngest ==
    /\ CameraInit
    /\ DashboardInit
    /\ SessionHookInit
    /\ \E c \in Courses, t \in StartInstants :
          ClassSessions = InsertSession(<< >>, c, t)
    /\ SessionAttendance = << >>
    /\ SessionHourLog = << >>
    /\ HoursAbsentTotal = [e \in Enrollments |-> 0]
    /\ UpdatedAt = [e \in Enrollments |-> 0]
    /\ Grades = [e \in Enrollments |-> DefaultGrades]
    /\ now = 0
    /\ last = "start_created"
    /\ applied = << >>
    /\ nEvents = 0
    /\ aggRuns = [s \in SessionIds |-> 0]
    /\ pc = [p \in Procs |-> "idle"]
    /\ loc = [p \in Procs |-> << >>]

NextIngest ==
    \/ Tick
    \/ \E stu \in Students, t \in IngestEventInstants \cup {NULL} :
          nEvents < MaxIngestEvents /\ sp_UpsertAttendanceOnRecognition(1, stu, t)
    \/ sp_FinalizeSession(1)

SpecIngest == InitIngest /\ [][NextIngest]_vars

(* ------------- one session of any length, finalized once --------------- *)
\* The state sp_StartSession(c, t) leaves behind, for a start in minute 0
\* or in minute 61.
InitFinalize ==
    /\ CameraInit
    /\ DashboardInit
    /\ SessionHookInit
    /\ \E c \in Courses, t \in FinalizeStartInstants :
          ClassSessions = InsertSession(<< >>, c, t)
    /\ SessionAttendance = << >>
    /\ SessionHourLog = << >>
    /\ HoursAbsentTotal = [e \in Enrollments |-> 0]
    /\ UpdatedAt = [e \in Enrollments |-> 0]
    /\ Grades = [e \in Enrollments |-> DefaultGrades]
    /\ now = 0
    /\ last = "start_created"
    /\ applied = << >>
    /\ nEvents = 0
    /\ aggRuns = [s \in SessionIds |-> 0]
    /\ pc = [p \in Procs |-> "idle"]
    /\ loc = [p \in Procs |-> << >>]

NextFinalize ==
    \/ TickTo(FinalizeClockInstants)
    \/ \E stu \in Students, t \in EventInstants \cup {NULL} :
          nEvents < MaxFinalizeEvents /\ sp_UpsertAttendanceOnRecognition(1, stu, t)
    \/ sp_FinalizeSession(1)

SpecFinalize == InitFinalize /\ [][NextFinalize]_vars

\* The same session left open for up to 514 hours.
NextLong ==
    \/ TickTo(LongClockInstants)
    \/ \E stu \in Students, t \in EventInstants \cup {NULL} :
          nEvents < MaxLongEvents /\ sp_UpsertAttendanceOnRecognition(1, stu, t)
    \/ sp_FinalizeSession(1)

SpecLong == InitFinalize /\ [][NextLong]_vars

(* --------------- the gradebook over finalizes and grade edits ---------- *)
\* One active session; every enrollment has the default grades and the
\* absence hours of its earlier sessions.
InitGrades ==
    /\ CameraInit
    /\ DashboardInit
    /\ SessionHookInit
    /\ \E c \in Courses : ClassSessions = InsertSession(<< >>, c, 0)
    /\ SessionAttendance = << >>
    /\ SessionHourLog = << >>
    /\ HoursAbsentTotal \in [Enrollments -> PriorAbsentHours]
    /\ UpdatedAt = [e \in Enrollments |-> 0]
    /\ Grades = [e \in Enrollments |-> DefaultGrades]
    /\ now = 0
    /\ last = "start_created"
    /\ applied = << >>
    /\ nEvents = 0
    /\ aggRuns = [s \in SessionIds |-> 0]
    /\ pc = [p \in Procs |-> "idle"]
    /\ loc = [p \in Procs |-> << >>]

NextGrades ==
    \/ Tick
    \/ \E e \in Enrollments, row \in GradeRows : GradeEdit(e, row)
    \/ sp_FinalizeSession(1)

SpecGrades == InitGrades /\ [][NextGrades]_vars

(* =================== two connections, statement by statement =========== *)
\* Neither procedure opens a transaction or takes a lock hint: every
\* statement commits on its own.  A MERGE and an INSERT ... SELECT ... LEFT
\* JOIN first read which keys exist and then insert; a key another connection
\* inserts in between makes the insert fail on the PRIMARY KEY, the statement
\* is terminated with nothing inserted and the procedure goes on with its
\* next statement.  A MATCHED row is updated under the lock it was read with.

\* sp_UpsertAttendanceOnRecognition up to the first MERGE: the session
\* lookup and the locals.
UpsertBegin(p, sid, stu, recognizedAtArg) ==
    /\ pc[p] = "idle"
    /\ IF UnknownSession(LookupSessionStart(ClassSessions, sid))
       THEN /\ last' = "recognize_return_unknown"
            /\ UNCHANGED <<pc, loc, applied, nEvents>>
       ELSE IF sid \notin DOMAIN ClassSessions
       THEN /\ last' = "recognize_fk_error"
            /\ UNCHANGED <<pc, loc, applied, nEvents>>
       ELSE LET recognizedAt == ISNULL(recognizedAtArg, now)
                sessionStart == ClassSessions[sid].StartedAt
                delay == DelayMinutes(sessionStart, recognizedAt)
            IN  /\ loc' = [loc EXCEPT ![p] =
                       [sid |-> sid, stu |-> stu, recognizedAt |-> recognizedAt,
                        delay |-> delay,
                        grace |-> LateGraceMinutes[ClassSessions[sid].CourseID],
                        hourIndex |-> HourIndex(delay),
                        hourStart |-> DATEADD_HOUR(HourIndex(delay), sessionStart),
                        err |-> FALSE]]
                /\ pc' = [pc EXCEPT ![p] = "att_merge"]
                /\ applied' = Record(applied, sid, stu, recognizedAt, delay, HourIndex(delay))
                /\ nEvents' = nEvents + 1
                /\ UNCHANGED last
    /\ UNCHANGED hookvars
    /\ UNCHANGED <<dbvars, now, aggRuns>>

\* MERGE dbo.SessionAttendance: the join, and the UPDATE of a matched row.
AttMergeMatch(p) ==
    /\ pc[p] = "att_merge"
    /\ LET k == <<loc[p].sid, loc[p].stu>>
       IN  IF k \in DOMAIN SessionAttendance
           THEN /\ SessionAttendance' =
                       [SessionAttendance EXCEPT ![k] =
                           AttendanceMatched(@, loc[p].recognizedAt, loc[p].delay, loc[p].grace)]
                /\ pc' = [pc EXCEPT ![p] = "hour_merge"]
           ELSE /\ pc' = [pc EXCEPT ![p] = "att_insert"]
                /\ UNCHANGED SessionAttendance
    /\ UNCHANGED hookvars
    /\ UNCHANGED <<ClassSessions, SessionHourLog, HoursAbsentTotal, UpdatedAt, Grades,
                   now, last, applied, nEvents, aggRuns, loc>>

\* MERGE dbo.SessionAttendance: the INSERT of the NOT MATCHED branch.
AttMergeInsert(p) ==
    /\ pc[p] = "att_insert"
    /\ LET k == <<loc[p].sid, loc[p].stu>>
       IN  IF k \in DOMAIN SessionAttendance
           THEN /\ loc' = [loc EXCEPT ![p].err = TRUE]
                /\ UNCHANGED SessionAttendance
           ELSE /\ SessionAttendance' = SessionAttendance @@
                       (k :> AttendanceNotMatched(loc[p].recognizedAt, loc[p].delay, loc[p].grace))
                /\ UNCHANGED loc
    /\ pc' = [pc EXCEPT ![p] = "hour_merge"]
    /\ UNCHANGED hookvars
    /\ UNCHANGED <<ClassSessions, SessionHourLog, HoursAbsentTotal, UpdatedAt, Grades,
                   now, last, applied, nEvents, aggRuns>>

\* How a call of sp_UpsertAttendanceOnRecognition ends.
UpsertOutcome(err) == IF err THEN "recognize_duplicate_key" ELSE "recognize_applied"

\* MERGE dbo.SessionHourLog: the join, and the UPDATE of a matched row.
HourMergeMatch(p) ==
    /\ pc[p] = "hour_merge"
    /\ LET k == <<loc[p].sid, loc[p].stu, loc[p].hourIndex>>
       IN  IF k \in DOMAIN SessionHourLog
           THEN /\ SessionHourLog' = [SessionHourLog EXCEPT ![k] =
                       [@ EXCEPT !.IsPresent = TRUE, !.Source = "recognizer"]]
                /\ pc' = [pc EXCEPT ![p] = "idle"]
                /\ loc' = [loc EXCEPT ![p] = << >>]
                /\ last' = UpsertOutcome(loc[p].err)
           ELSE /\ pc' = [pc EXCEPT ![p] = "hour_insert"]
                /\ UNCHANGED <<SessionHourLog, loc, last>>
    /\ UNCHANGED hookvars
    /\ UNCHANGED <<ClassSessions, SessionAttendance, HoursAbsentTotal, UpdatedAt, Grades,
                   now, applied, nEvents, aggRuns>>

\* MERGE dbo.SessionHourLog: the INSERT of the NOT MATCHED branch.
HourMergeInsert(p) ==
    /\ pc[p] = "hour_insert"
    /\ LET k == <<loc[p].sid, loc[p].stu, loc[p].hourIndex>>
       IN  IF k \in DOMAIN SessionHourLog
           THEN /\ last' = UpsertOutcome(TRUE)
                /\ UNCHANGED SessionHourLog
           ELSE /\ SessionHourLog' = SessionHourLog @@ (k :> HourRecognized(loc[p].hourStart))
                /\ last' = UpsertOutcome(loc[p].err)
    /\ pc' = [pc EXCEPT ![p] = "idle"]
    /\ loc' = [loc EXCEPT ![p] = << >>]
    /\ UNCHANGED hookvars
    /\ UNCHANGED <<ClassSessions, SessionAttendance, HoursAbsentTotal, UpdatedAt, Grades,
                   now, applied, nEvents, aggRuns>>

\* sp_FinalizeSession up to its UPDATE: the SELECT and the two RETURNs.
FinalizeBegin(p, sid) ==
    /\ pc[p] = "idle"
    /\ IF sid \notin DOMAIN ClassSessions
       THEN /\ last' = "finalize_return_unknown"
            /\ UNCHANGED <<pc, loc>>
       ELSE IF IsFinalized(ClassSessions[sid].Status)
       THEN /\ last' = "finalize_return_finalized"
            /\ UNCHANGED <<pc, loc>>
       ELSE /\ loc' = [loc EXCEPT ![p] =
                   [sid |-> sid, course |-> ClassSessions[sid].CourseID,
                    startAt |-> ClassSessions[sid].StartedAt,
                    endAt |-> ClassSessions[sid].EndedAt,
                    totalHours |-> 0, keys |-> {}, err |-> FALSE]]
            /\ pc' = [pc EXCEPT ![p] = "fin_update"]
            /\ UNCHANGED last
    /\ UNCHANGED hookvars
    /\ UNCHANGED <<dbvars, now, applied, nEvents, aggRuns>>

\* SET @EndAt, UPDATE dbo.ClassSessions, SET @DurationMinutes, SET @TotalHours.
FinalizeUpdateStmt(p) ==
    /\ pc[p] = "fin_update"
    /\ LET endAt == ISNULL(loc[p].endAt, now)
       IN  /\ ClassSessions' = FinalizeUpdate(ClassSessions, loc[p].sid, endAt)
           /\ loc' = [loc EXCEPT ![p].endAt = endAt,
                                 ![p].totalHours =
                                     TotalHours(DurationMinutes(loc[p].startAt, endAt))]
    /\ pc' = [pc EXCEPT ![p] = "fin_backfill"]
    /\ UNCHANGED hookvars
    /\ UNCHANGED <<SessionAttendance, SessionHourLog, HoursAbsentTotal, UpdatedAt, Grades,
                   now, last, applied, nEvents, aggRuns>>

\* INSERT INTO dbo.SessionAttendance: the SELECT with its LEFT JOIN.
FinalizeBackfillSelect(p) ==
    /\ pc[p] = "fin_backfill"
    /\ loc' = [loc EXCEPT ![p].keys =
                  BackfillKeys(SessionAttendance, loc[p].sid, loc[p].course)]
    /\ pc' = [pc EXCEPT ![p] = "fin_backfill_insert"]
    /\ UNCHANGED hookvars
    /\ UNCHANGED <<dbvars, now, last, applied, nEvents, aggRuns>>

\* INSERT INTO dbo.SessionAttendance: the insert of the selected rows.
FinalizeBackfillInsert(p) ==
    /\ pc[p] = "fin_backfill_insert"
    /\ IF loc[p].keys \cap DOMAIN SessionAttendance # {}
       THEN /\ loc' = [loc EXCEPT ![p].err = TRUE, ![p].keys = {}]
            /\ UNCHANGED SessionAttendance
       ELSE /\ SessionAttendance' =
                   SessionAttendance @@ [k \in loc[p].keys |-> AbsentAttendance]
            /\ loc' = [loc EXCEPT ![p].keys = {}]
    /\ pc' = [pc EXCEPT ![p] = "fin_seed"]
    /\ UNCHANGED hookvars
    /\ UNCHANGED <<ClassSessions, SessionHourLog, HoursAbsentTotal, UpdatedAt, Grades,
                   now, last, applied, nEvents, aggRuns>>

\* INSERT INTO dbo.SessionHourLog: the SELECT over Enrollments x HourSeries.
FinalizeSeedSelect(p) ==
    /\ pc[p] = "fin_seed"
    /\ IF SeriesTooLong(loc[p].totalHours)
       THEN /\ loc' = [loc EXCEPT ![p].err = TRUE]
            /\ pc' = [pc EXCEPT ![p] = "fin_aggregate"]
       ELSE /\ loc' = [loc EXCEPT ![p].keys =
                   SeedKeys(SessionHourLog, loc[p].sid, loc[p].course, loc[p].totalHours)]
            /\ pc' = [pc EXCEPT ![p] = "fin_seed_insert"]
    /\ UNCHANGED hookvars
    /\ UNCHANGED <<dbvars, now, last, applied, nEvents, aggRuns>>

\* INSERT INTO dbo.SessionHourLog: the insert of the selected rows.
FinalizeSeedInsert(p) ==
    /\ pc[p] = "fin_seed_insert"
    /\ IF loc[p].keys \cap DOMAIN SessionHourLog # {}
       THEN /\ loc' = [loc EXCEPT ![p].err = TRUE, ![p].keys = {}]
            /\ UNCHANGED SessionHourLog
       ELSE /\ SessionHourLog' =
                   SessionHourLog @@ [k \in loc[p].keys |-> SeededHour(k, loc[p].startAt)]
            /\ loc' = [loc EXCEPT ![p].keys = {}]
    /\ pc' = [pc EXCEPT ![p] = "fin_aggregate"]
    /\ UNCHANGED hookvars
    /\ UNCHANGED <<ClassSessions, SessionAttendance, HoursAbsentTotal, UpdatedAt, Grades,
                   now, last, applied, nEvents, aggRuns>>

\* How a call of sp_FinalizeSession that ran its statements ends.
FinalizeOutcome(err) == IF err THEN "finalize_duplicate_key" ELSE "finalize_aggregated"

\* The SessionAbsence CTE and UPDATE e ... FROM dbo.Enrollments e.
FinalizeAggregate(p) ==
    /\ pc[p] = "fin_aggregate"
    /\ HoursAbsentTotal' =
           AggregateAbsence(HoursAbsentTotal, SessionHourLog, loc[p].sid, loc[p].course)
    /\ UpdatedAt' = StampUpdatedAt(UpdatedAt, SessionHourLog, loc[p].sid, loc[p].course, now)
    /\ aggRuns' = [aggRuns EXCEPT ![loc[p].sid] = @ + 1]
    /\ last' = FinalizeOutcome(loc[p].err)
    /\ pc' = [pc EXCEPT ![p] = "idle"]
    /\ loc' = [loc EXCEPT ![p] = << >>]
    /\ UNCHANGED hookvars
    /\ UNCHANGED <<ClassSessions, SessionAttendance, SessionHourLog, Grades,
                   now, applied, nEvents>>

\* One active session of some course, started at the origin.
InitConc ==
    /\ CameraInit
    /\ DashboardInit
    /\ SessionHookInit
    /\ \E c \in Courses : ClassSessions = InsertSession(<< >>, c, 0)
    /\ SessionAttendance = << >>
    /\ SessionHourLog = << >>
    /\ HoursAbsentTotal = [e \in Enrollments |-> 0]
    /\ UpdatedAt = [e \in Enrollments |-> 0]
    /\ Grades = [e \in Enrollments |-> DefaultGrades]
    /\ now = 0
    /\ last = "start_created"
    /\ applied = << >>
    /\ nEvents = 0
    /\ aggRuns = [s \in SessionIds |-> 0]
    /\ pc = [p \in Procs |-> "idle"]
    /\ loc = [p \in Procs |-> << >>]

NextConc ==
    \/ Tick
    \/ \E p \in Procs, sid \in SessionIds, stu \in Students, t \in EventInstants \cup {NULL} :
          nEvents < MaxConcEvents /\ UpsertBegin(p, sid, stu, t)
    \/ \E p \in Procs : AttMergeMatch(p)
    \/ \E p \in Procs : AttMergeInsert(p)
    \/ \E p \in Procs : HourMergeMatch(p)
    \/ \E p \in Procs : HourMergeInsert(p)
    \/ \E p \in Procs, sid \in SessionIds : FinalizeBegin(p, sid)
    \/ \E p \in Procs : FinalizeUpdateStmt(p)
    \/ \E p \in Procs : FinalizeBackfillSelect(p)
    \/ \E p \in Procs : FinalizeBackfillInsert(p)
    \/ \E p \in Procs : FinalizeSeedSelect(p)
    \/ \E p \in Procs : FinalizeSeedInsert(p)
    \/ \E p \in Procs : FinalizeAggregate(p)

SpecConc == InitConc /\ [][NextConc]_vars

\* Two connections that only run sp_UpsertAttendanceOnRecognition.
NextConcIngest ==
    \/ Tick
    \/ \E p \in Procs, sid \in SessionIds, stu \in Students, t \in EventInstants \cup {NULL} :
          nEvents < MaxConcIngestEvents /\ UpsertBegin(p, sid, stu, t)
    \/ \E p \in Procs : AttMergeMatch(p)
    \/ \E p \in Procs : AttMergeInsert(p)
    \/ \E p \in Procs : HourMergeMatch(p)
    \/ \E p \in Procs : HourMergeInsert(p)

SpecConcIngest == InitConc /\ [][NextConcIngest]_vars

(* ======================= properties: helpers =========================== *)
EnrolledIn(course) == {e[1] : e \in {x \in Enrollments : x[2] = course}}

Max2(a, b) == IF a > b THEN a ELSE b
MinOf(S) == CHOOSE x \in S : \A y \in S : x <= y
MaxOf(S) == CHOOSE x \in S : \A y \in S : x >= y

\* Rows of SessionHourLog hl for (sid, stu) with IsPresent = 0.
AbsentRowCount(hl, sid, stu) ==
    Cardinality({k \in DOMAIN hl : k[1] = sid /\ k[2] = stu /\ hl[k].IsPresent = FALSE})

\* total_hours as section 4.1 states it: max(1, ceil(duration / 60)) of
\* duration = max(1, EndedAt - StartedAt), the difference taken between the
\* minutes the two timestamps lie in.
StatedTotalHours(startedAt, endedAt) ==
    LET duration == Max2(1, (endedAt \div 60) - (startedAt \div 60))
    IN  Max2(1, (duration + 59) \div 60)

\* The step finalizes session sid: it was active and is finalized afterwards.
Finalizes(sid) ==
    /\ sid \in DOMAIN ClassSessions
    /\ ClassSessions[sid].Status = "active"
    /\ sid \in DOMAIN ClassSessions'
    /\ ClassSessions'[sid].Status = "finalized"

GraceOf(sid) == LateGraceMinutes[ClassSessions[sid].CourseID]

\* delay_minutes as section 4.2 states it: max(0, minutes between the
\* session start and recognized_at), the minutes counted as in
\* StatedTotalHours.
StatedDelay(startedAt, recognizedAt) ==
    Max2(0, (recognizedAt \div 60) - (startedAt \div 60))

\* The hours the finalize of session sid added to the student's
\* HoursAbsentTotal, where the enrollment started at 0 hours and sid is the
\* only session of its course.
ChargedBy(sid, stu) == HoursAbsentTotal[<<stu, ClassSessions[sid].CourseID>>]

\* The hour indices events of (sid, stu) were applied to.
EventHours(sid, stu) ==
    IF <<sid, stu>> \in DOMAIN applied THEN applied[<<sid, stu>>].hours ELSE {}

\* The step adds exactly one session: active, of the given course, started
\* at startedAt if given and at the current time otherwise, with no EndedAt;
\* every other row of every table stays as it was.
StartCreates(course, startedAt) ==
    /\ \E new \in SessionIds \ DOMAIN ClassSessions :
          /\ DOMAIN ClassSessions' = DOMAIN ClassSessions \cup {new}
          /\ ClassSessions'[new] =
                 [CourseID |-> course,
                  StartedAt |-> IF startedAt = NULL THEN now ELSE startedAt,
                  EndedAt |-> NULL, Status |-> "active"]
    /\ \A s \in DOMAIN ClassSessions : ClassSessions'[s] = ClassSessions[s]
    /\ UNCHANGED hookvars
    /\ UNCHANGED <<SessionAttendance, SessionHourLog, HoursAbsentTotal, UpdatedAt, Grades>>

\* The sum of the six grade components, in hundredths.
SumOfComponents(g) ==
    g.Quiz1 + g.Quiz2 + g.ProjectGrade + g.AssignmentGrade + g.MidtermGrade
        + g.FinalExamGrade

(* ============================== C1 ===================================== *)
\* C1: HoursAbsentTotal of an enrollment never decreases; it changes only in
\* a step that takes a session of the enrollment's course from active to
\* finalized; and every such step adds exactly the number of the student's
\* absent SessionHourLog rows of that session as they are after the step.
C1_HoursAbsentOnlyByFinalize ==
    [][\A e \in Enrollments :
         /\ HoursAbsentTotal'[e] >= HoursAbsentTotal[e]
         /\ HoursAbsentTotal'[e] # HoursAbsentTotal[e] =>
                \E sid \in SessionIds :
                    Finalizes(sid) /\ ClassSessions[sid].CourseID = e[2]
         /\ \A sid \in SessionIds :
                Finalizes(sid) /\ ClassSessions[sid].CourseID = e[2] =>
                    HoursAbsentTotal'[e] =
                        HoursAbsentTotal[e] + AbsentRowCount(SessionHourLog', sid, e[1])
      ]_vars

\* A finalize has charged a student who was seen in one hour of the session
\* and absent in another.
C1_Witness ==
    \E sid \in DOMAIN ClassSessions, e \in Enrollments :
        /\ ClassSessions[sid].Status = "finalized"
        /\ ClassSessions[sid].CourseID = e[2]
        /\ HoursAbsentTotal[e] > 0
        /\ \E k \in DOMAIN SessionHourLog :
              k[1] = sid /\ k[2] = e[1] /\ SessionHourLog[k].IsPresent
        /\ AbsentRowCount(SessionHourLog, sid, e[1]) > 0

(* ============================== C2 ===================================== *)
\* C2: a call of sp_FinalizeSession for a session that is already finalized
\* leaves ClassSessions, SessionAttendance, SessionHourLog, HoursAbsentTotal
\* and UpdatedAt exactly as they were.
C2_RefinalizeChangesNothing ==
    [][\A sid \in SessionIds :
         (/\ sid \in DOMAIN ClassSessions
          /\ ClassSessions[sid].Status = "finalized"
          /\ sp_FinalizeSession(sid))
         => UNCHANGED dbvars
      ]_vars

\* A second finalize has returned for a session whose first finalize charged
\* absence hours.
C2_Witness ==
    /\ last = "finalize_return_finalized"
    /\ \E sid \in DOMAIN ClassSessions, e \in Enrollments :
          /\ ClassSessions[sid].Status = "finalized"
          /\ ClassSessions[sid].CourseID = e[2]
          /\ AbsentRowCount(SessionHourLog, sid, e[1]) > 0
          /\ HoursAbsentTotal[e] > 0

(* ============================== C3 ===================================== *)
\* C3: two concurrent calls of sp_FinalizeSession for the same active session
\* do not interleave, and the absence UPDATE charges the session's absent
\* hours to each enrolled student exactly once: it runs at most once per
\* session, so no HoursAbsentTotal exceeds the student's hour rows in the
\* sessions of the course.
C3_FinalizeChargesOnce ==
    /\ \A sid \in DOMAIN ClassSessions : aggRuns[sid] <= 1
    /\ \A e \in Enrollments :
          HoursAbsentTotal[e] <=
              Cardinality({k \in DOMAIN SessionHourLog :
                              k[2] = e[1] /\ ClassSessions[k[1]].CourseID = e[2]})

(* ============================== C4 ===================================== *)
\* C4: no state in which a session is marked finalized is visible while an
\* enrolled student lacks a SessionAttendance row, or an hour row of
\* [0, total_hours) is missing, or the absence hours have not been added.
C4_FinalizeAtomic ==
    \A sid \in DOMAIN ClassSessions :
        ClassSessions[sid].Status = "finalized" =>
            LET course == ClassSessions[sid].CourseID
                th == StatedTotalHours(ClassSessions[sid].StartedAt, ClassSessions[sid].EndedAt)
            IN  /\ \A stu \in EnrolledIn(course) : <<sid, stu>> \in DOMAIN SessionAttendance
                /\ \A stu \in EnrolledIn(course), h \in 0..(th - 1) :
                      <<sid, stu, h>> \in DOMAIN SessionHourLog
                /\ aggRuns[sid] >= 1

(* ============================== C5 ===================================== *)
\* C5: when the first event applied to a (session, student) had a delay
\* within the course's grace minutes, IsLate is false in every later state.
C5_OnTimeFirstNeverLate ==
    \A k \in DOMAIN applied :
        applied[k].firstDelay <= GraceOf(k[1]) =>
            k \in DOMAIN SessionAttendance /\ SessionAttendance[k].IsLate = FALSE

\* An on-time first event was followed by an event beyond the grace period.
C5_Witness ==
    \E k \in DOMAIN applied :
        /\ applied[k].firstDelay <= GraceOf(k[1])
        /\ \E t \in applied[k].ats :
              DelayMinutes(ClassSessions[k[1]].StartedAt, t) > GraceOf(k[1])
        /\ SessionAttendance[k].IsLate = FALSE

(* ============================== C6 ===================================== *)
\* C6: when the first event applied to a (session, student) had a delay
\* beyond the grace minutes, IsLate is true and ArrivalDelayMinutes is that
\* first delay in every later state, also after events with earlier
\* timestamps.
C6_LateFirstStaysLate ==
    \A k \in DOMAIN applied :
        applied[k].firstDelay > GraceOf(k[1]) =>
            /\ k \in DOMAIN SessionAttendance
            /\ SessionAttendance[k].IsLate = TRUE
            /\ SessionAttendance[k].ArrivalDelayMinutes = applied[k].firstDelay

\* A late first event was followed by an event with an earlier timestamp
\* and a delay inside the grace period.
C6_Witness ==
    \E k \in DOMAIN applied :
        /\ applied[k].firstDelay > GraceOf(k[1])
        /\ \E t \in applied[k].ats :
              DelayMinutes(ClassSessions[k[1]].StartedAt, t) <= GraceOf(k[1])
        /\ SessionAttendance[k].FirstSeenAt < SessionAttendance[k].LastSeenAt
        /\ SessionAttendance[k].IsLate

(* ============================== C7 ===================================== *)
\* C7: FirstSeenAt is the least and LastSeenAt the greatest recognized_at
\* applied so far to the (session, student), and FirstSeenAt <= LastSeenAt
\* wherever both are set.
C7_FirstMinLastMax ==
    /\ \A k \in DOMAIN applied :
          /\ k \in DOMAIN SessionAttendance
          /\ SessionAttendance[k].FirstSeenAt = MinOf(applied[k].ats)
          /\ SessionAttendance[k].LastSeenAt = MaxOf(applied[k].ats)
    /\ \A k \in DOMAIN SessionAttendance :
          (SessionAttendance[k].FirstSeenAt # NULL /\ SessionAttendance[k].LastSeenAt # NULL)
          => SessionAttendance[k].FirstSeenAt <= SessionAttendance[k].LastSeenAt

\* Three different timestamps were applied and the first one applied is
\* neither the least nor the greatest of them.
C7_Witness ==
    \E k \in DOMAIN applied :
        /\ Cardinality(applied[k].ats) >= 3
        /\ \E t \in applied[k].ats :
              /\ DelayMinutes(ClassSessions[k[1]].StartedAt, t) = applied[k].firstDelay
              /\ SessionAttendance[k].FirstSeenAt < t
              /\ t < SessionAttendance[k].LastSeenAt

(* ============================== C8 ===================================== *)
\* C8: concurrent calls of sp_UpsertAttendanceOnRecognition for the same
\* (session, student) lose no event: no call ends in a duplicate-key
\* failure, and once the calls have returned the row exists, FirstSeenAt and
\* LastSeenAt are the least and greatest timestamp applied, and IsLate and
\* ArrivalDelayMinutes are those of one of the events.
C8_ConcurrentUpsertsSerializable ==
    /\ last # "recognize_duplicate_key"
    /\ AllIdle =>
          \A k \in DOMAIN applied :
              /\ k \in DOMAIN SessionAttendance
              /\ SessionAttendance[k].FirstSeenAt = MinOf(applied[k].ats)
              /\ SessionAttendance[k].LastSeenAt = MaxOf(applied[k].ats)
              /\ \E t \in applied[k].ats :
                    LET d == DelayMinutes(ClassSessions[k[1]].StartedAt, t)
                    IN  /\ SessionAttendance[k].ArrivalDelayMinutes = d
                        /\ SessionAttendance[k].IsLate = (d > GraceOf(k[1]))

(* ============================== C9 ===================================== *)
\* C9: Status is always active or finalized, a finalized session has
\* EndedAt set, a session is created active, no session row disappears, and
\* the only change of Status is active -> finalized, made by
\* sp_FinalizeSession; a finalized session stays finalized.
C9_StatusMachine ==
    /\ [](\A sid \in DOMAIN ClassSessions :
            /\ ClassSessions[sid].Status \in {"active", "finalized"}
            /\ ClassSessions[sid].Status = "finalized" => ClassSessions[sid].EndedAt # NULL)
    /\ [][/\ \A sid \in DOMAIN ClassSessions' \ DOMAIN ClassSessions :
               ClassSessions'[sid].Status = "active" /\ ClassSessions'[sid].EndedAt = NULL
          /\ \A sid \in DOMAIN ClassSessions :
               /\ sid \in DOMAIN ClassSessions'
               /\ ClassSessions[sid].Status = "finalized" =>
                      ClassSessions'[sid].Status = "finalized"
               /\ ClassSessions'[sid].Status # ClassSessions[sid].Status =>
                      Finalizes(sid) /\ last' = "finalize_aggregated"
         ]_vars

\* One session has been finalized while another one is still active.
C9_Witness ==
    \E s1, s2 \in DOMAIN ClassSessions :
        /\ ClassSessions[s1].Status = "finalized"
        /\ ClassSessions[s1].EndedAt # NULL
        /\ ClassSessions[s2].Status = "active"
        /\ last = "finalize_return_finalized"

C12_UnknownSessionEventDropped ==
    [][\A sid \in SessionIds, stu \in Students, t \in EventInstants \cup {NULL} :
         (/\ sid \notin DOMAIN ClassSessions
          /\ sp_UpsertAttendanceOnRecognition(sid, stu, t))
         => (UNCHANGED dbvars /\ Returned(last') = "no error")
      ]_vars

\* An event for an unknown session has been dropped while another session
\* already has an attendance row.
C12_Witness ==
    /\ last = "recognize_return_unknown"
    /\ DOMAIN SessionAttendance # {}
    /\ DOMAIN ClassSessions # SessionIds

(* ============================== C13 ==================================== *)
\* C13: a call of sp_FinalizeSession for a session id that has no
\* ClassSessions row changes no table and hands the caller an outcome that
\* differs from the outcome of a finalize that succeeded.
C13_UnknownSessionFinalizeNotFound ==
    [][\A sid \in SessionIds :
         (sid \notin DOMAIN ClassSessions /\ sp_FinalizeSession(sid))
         => (/\ UNCHANGED dbvars
             /\ Returned(last') # Returned("finalize_aggregated"))
      ]_vars

C15_RefinalizeDistinguishable ==
    [][\A sid \in SessionIds :
         (/\ sid \in DOMAIN ClassSessions
          /\ ClassSessions[sid].Status = "finalized"
          /\ sp_FinalizeSession(sid))
         => Returned(last') # Returned("finalize_aggregated")
      ]_vars

(* ============================== C16 ==================================== *)
\* C16: a call of sp_FinalizeSession in which a statement fails leaves every
\* table as it was before the call: the session still active with its
\* previous EndedAt, no row added, no HoursAbsentTotal changed.
C16_FailedFinalizeUndone ==
    [][\A sid \in SessionIds :
         (sp_FinalizeSession(sid) /\ Returned(last') # "no error")
         => UNCHANGED dbvars
      ]_vars

(* ============================== C17 ==================================== *)
\* C17: for every enrollment, AttendancePenalty is 0.25 per absent hour and
\* AdjustedTotal is RawTotal - AttendancePenalty, or 0 where that is
\* negative; AdjustedTotal is never negative.
C17_AdjustedTotalFloored ==
    \A e \in Enrollments :
        LET g == Grades[e]
            h == HoursAbsentTotal[e]
        IN  /\ AttendancePenalty(h) = 25 * h
            /\ AdjustedTotal(g, h) = Max2(0, RawTotal(g) - AttendancePenalty(h))
            /\ AdjustedTotal(g, h) >= 0

\* After a finalize that charged hours, one enrollment has a penalty above
\* its RawTotal and an AdjustedTotal of 0, another a positive AdjustedTotal
\* below its RawTotal.
C17_Witness ==
    /\ last = "finalize_aggregated"
    /\ \E e \in Enrollments :
          /\ HoursAbsentTotal[e] > 0
          /\ RawTotal(Grades[e]) < AttendancePenalty(HoursAbsentTotal[e])
          /\ AdjustedTotal(Grades[e], HoursAbsentTotal[e]) = 0
    /\ \E e \in Enrollments :
          /\ HoursAbsentTotal[e] > 0
          /\ AdjustedTotal(Grades[e], HoursAbsentTotal[e]) > 0
          /\ AdjustedTotal(Grades[e], HoursAbsentTotal[e]) < RawTotal(Grades[e])

(* ============================== C18 ==================================== *)
\* C18: in every state, for every enrollment, AttendancePenalty is
\* HoursAbsentTotal * 0.25, RawTotal is the sum of the six components,
\* AtRisk is (AdjustedTotal < 60 or HoursAbsentTotal >= 8) and
\* AtRiskByPolicy is (AdjustedTotal < 60 or HoursAbsentTotal >= the
\* course's MaxAllowedAbsentHours), all on the current components and hours.
C18_DerivedFieldsCurrent ==
    \A e \in Enrollments :
        LET g == Grades[e]
            h == HoursAbsentTotal[e]
        IN  /\ AttendancePenalty(h) = 25 * h
            /\ RawTotal(g) = SumOfComponents(g)
            /\ AtRisk(g, h) <=> (AdjustedTotal(g, h) < 6000 \/ h >= 8)
            /\ AtRiskByPolicy(g, h, e[2]) <=>
                   (AdjustedTotal(g, h) < 6000 \/ h >= MaxAllowedAbsentHours[e[2]])

\* After a grade edit an enrollment of the course with threshold 8 has 9
\* absent hours and RawTotal 70.00: penalty 2.25, AdjustedTotal 67.75, both
\* flags set.
C18_Witness ==
    /\ last = "grades_saved"
    /\ \E e \in Enrollments :
          /\ MaxAllowedAbsentHours[e[2]] = 8
          /\ HoursAbsentTotal[e] = 9
          /\ RawTotal(Grades[e]) = 7000
          /\ AttendancePenalty(HoursAbsentTotal[e]) = 225
          /\ AdjustedTotal(Grades[e], HoursAbsentTotal[e]) = 6775
          /\ AtRisk(Grades[e], HoursAbsentTotal[e])
          /\ AtRiskByPolicy(Grades[e], HoursAbsentTotal[e], e[2])

(* ============================== C19 ==================================== *)
\* C19: for every enrollment of a course whose MaxAllowedAbsentHours is 8,
\* AtRisk and AtRiskByPolicy are equal in every state; where the two flags
\* differ the course's threshold is not 8.
C19_FlagsAgreeAtThreshold8 ==
    \A e \in Enrollments :
        LET g == Grades[e]
            h == HoursAbsentTotal[e]
        IN  /\ MaxAllowedAbsentHours[e[2]] = 8 =>
                   (AtRisk(g, h) <=> AtRiskByPolicy(g, h, e[2]))
            /\ (AtRisk(g, h) # AtRiskByPolicy(g, h, e[2])) =>
                   MaxAllowedAbsentHours[e[2]] # 8

\* A passing enrollment of the threshold-8 course has reached 8 absent hours
\* through a finalize and has both flags set, while a passing enrollment of
\* the threshold-4 course has only AtRiskByPolicy set.
C19_Witness ==
    /\ last = "finalize_aggregated"
    /\ \E e \in Enrollments :
          /\ MaxAllowedAbsentHours[e[2]] = 8
          /\ HoursAbsentTotal[e] = 8
          /\ AdjustedTotal(Grades[e], HoursAbsentTotal[e]) >= 6000
          /\ AtRisk(Grades[e], HoursAbsentTotal[e])
          /\ AtRiskByPolicy(Grades[e], HoursAbsentTotal[e], e[2])
    /\ \E e \in Enrollments :
          /\ MaxAllowedAbsentHours[e[2]] # 8
          /\ ~AtRisk(Grades[e], HoursAbsentTotal[e])
          /\ AtRiskByPolicy(Grades[e], HoursAbsentTotal[e], e[2])

C21_FirstEventCreatesRecord ==
    [][\A sid \in SessionIds, stu \in Students, t \in IngestEventInstants \cup {NULL} :
         (/\ sid \in DOMAIN ClassSessions
          /\ <<sid, stu>> \notin DOMAIN SessionAttendance
          /\ sp_UpsertAttendanceOnRecognition(sid, stu, t))
         =>
         LET at == IF t = NULL THEN now ELSE t
             delay == StatedDelay(ClassSessions[sid].StartedAt, at)
         IN  /\ <<sid, stu>> \in DOMAIN SessionAttendance'
             /\ SessionAttendance'[<<sid, stu>>] =
                    [FirstSeenAt |-> at, LastSeenAt |-> at, IsPresent |-> TRUE,
                     IsLate |-> (delay > GraceOf(sid)), ArrivalDelayMinutes |-> delay]
             /\ <<sid, stu, delay \div 60>> \in DOMAIN SessionHourLog'
             /\ SessionHourLog'[<<sid, stu, delay \div 60>>].IsPresent
      ]_vars

\* The only event so far came 11 minutes after the start of a session with
\* 10 grace minutes: the record is late with delay 11, hour 0 is present.
C21_Witness ==
    /\ nEvents = 1
    /\ last = "recognize_applied"
    /\ ClassSessions[1].StartedAt = 0
    /\ GraceOf(1) = 10
    /\ \E stu \in Students :
          /\ <<1, stu>> \in DOMAIN SessionAttendance
          /\ SessionAttendance[<<1, stu>>] =
                 [FirstSeenAt |-> 660, LastSeenAt |-> 660, IsPresent |-> TRUE,
                  IsLate |-> TRUE, ArrivalDelayMinutes |-> 11]
          /\ <<1, stu, 0>> \in DOMAIN SessionHourLog
          /\ SessionHourLog[<<1, stu, 0>>].IsPresent

(* ============================== C22 ==================================== *)
\* C22: an event whose recognized_at is earlier than the session's StartedAt
\* is applied without an error: hour row 0 is present afterwards, and a
\* record the event creates has ArrivalDelayMinutes 0 and is not late; no
\* ArrivalDelayMinutes is negative in any state.
C22_EarlyEventClamped ==
    /\ [][\A sid \in SessionIds, stu \in Students, t \in EventInstants \cup {NULL} :
            (/\ sid \in DOMAIN ClassSessions
             /\ (IF t = NULL THEN now ELSE t) < ClassSessions[sid].StartedAt
             /\ sp_UpsertAttendanceOnRecognition(sid, stu, t))
            =>
            /\ last' = "recognize_applied"
            /\ Returned(last') = "no error"
            /\ <<sid, stu, 0>> \in DOMAIN SessionHourLog'
            /\ SessionHourLog'[<<sid, stu, 0>>].IsPresent
            /\ <<sid, stu>> \notin DOMAIN SessionAttendance =>
                  /\ SessionAttendance'[<<sid, stu>>].ArrivalDelayMinutes = 0
                  /\ SessionAttendance'[<<sid, stu>>].IsLate = FALSE
         ]_vars
    /\ [](\A k \in DOMAIN SessionAttendance :
            SessionAttendance[k].ArrivalDelayMinutes = NULL
            \/ SessionAttendance[k].ArrivalDelayMinutes >= 0)

\* A session that starts in minute 61 has a record created by an event of
\* minute 1: delay 0, not late, hour 0 present.
C22_Witness ==
    /\ ClassSessions[1].StartedAt = 3660
    /\ \E stu \in Students :
          /\ <<1, stu>> \in DOMAIN SessionAttendance
          /\ SessionAttendance[<<1, stu>>].FirstSeenAt = 60
          /\ SessionAttendance[<<1, stu>>].ArrivalDelayMinutes = 0
          /\ SessionAttendance[<<1, stu>>].IsLate = FALSE
          /\ SessionHourLog[<<1, stu, 0>>].IsPresent

(* ============================== C24 ==================================== *)
\* C24: the step that finalizes a session adds hour rows only for keys that
\* had no row, and leaves every hour row that existed before it with the
\* same IsPresent and Source.
C24_SeedKeepsExistingRows ==
    [][\A sid \in SessionIds :
         Finalizes(sid) =>
            \A k \in DOMAIN SessionHourLog :
                /\ k \in DOMAIN SessionHourLog'
                /\ SessionHourLog'[k].IsPresent = SessionHourLog[k].IsPresent
                /\ SessionHourLog'[k].Source = SessionHourLog[k].Source
      ]_vars

\* A finalized three-hour session in which a student's only event fell into
\* the middle hour: that row is still the recognizer's and present, the
\* hours before and after it are system rows.
C24_Witness ==
    /\ ClassSessions[1].Status = "finalized"
    /\ nEvents = 1
    /\ \E stu \in EnrolledIn(ClassSessions[1].CourseID) :
          /\ {<<1, stu, 0>>, <<1, stu, 1>>, <<1, stu, 2>>} \subseteq DOMAIN SessionHourLog
          /\ SessionHourLog[<<1, stu, 1>>].Source = "recognizer"
          /\ SessionHourLog[<<1, stu, 1>>].IsPresent
          /\ SessionHourLog[<<1, stu, 0>>].Source = "system"
          /\ SessionHourLog[<<1, stu, 2>>].Source = "system"
          /\ ChargedBy(1, stu) = 2

(* ============================== C25 ==================================== *)
\* C25: the step that finalizes a session adds an absent SessionAttendance
\* row (not present, not late, no timestamps, no delay) for exactly the
\* students that are enrolled in the course, are active and had no row;
\* an inactive student gets none, and existing rows stay as they were.
C25_BackfillActiveStudentsOnly ==
    [][\A sid \in SessionIds :
         Finalizes(sid) =>
            LET course == ClassSessions[sid].CourseID
                expected == {<<sid, stu>> : stu \in {x \in EnrolledIn(course) :
                                                       StudentIsActive[x]}}
                                \ DOMAIN SessionAttendance
            IN  /\ DOMAIN SessionAttendance' \ DOMAIN SessionAttendance = expected
                /\ \A k \in expected : SessionAttendance'[k] = AbsentAttendance
                /\ \A k \in DOMAIN SessionAttendance :
                      SessionAttendance'[k] = SessionAttendance[k]
      ]_vars

C27_AbsentRowsEqualCharged ==
    \A sid \in DOMAIN ClassSessions :
        ClassSessions[sid].Status = "finalized" =>
            \A stu \in EnrolledIn(ClassSessions[sid].CourseID) :
                AbsentRowCount(SessionHourLog, sid, stu) = ChargedBy(sid, stu)

(* ============================== C28 ==================================== *)
\* C28: when a session is finalized, every enrolled student to whom an event
\* with StartedAt <= recognized_at <= EndedAt was applied has a present
\* hour row with an index in [0, total_hours) and is charged fewer than
\* total_hours hours.
C28_SeenStudentHasCountedHour ==
    [][\A sid \in SessionIds :
         Finalizes(sid) =>
            LET course == ClassSessions[sid].CourseID
                startedAt == ClassSessions'[sid].StartedAt
                endedAt == ClassSessions'[sid].EndedAt
                th == StatedTotalHours(startedAt, endedAt)
            IN  \A stu \in EnrolledIn(course) :
                   (/\ <<sid, stu>> \in DOMAIN applied
                    /\ \E t \in applied[<<sid, stu>>].ats : startedAt <= t /\ t <= endedAt)
                   =>
                   /\ \E h \in 0..(th - 1) :
                         /\ <<sid, stu, h>> \in DOMAIN SessionHourLog
                         /\ SessionHourLog[<<sid, stu, h>>].IsPresent
                   /\ HoursAbsentTotal'[<<stu, course>>] - HoursAbsentTotal[<<stu, course>>] < th
      ]_vars

(* ============================== C29 ==================================== *)
\* C29: in every state every SessionAttendance row is late exactly when its
\* ArrivalDelayMinutes is set and above the course's grace minutes, is
\* present if it is late, and is present exactly when FirstSeenAt and
\* LastSeenAt are both set.
C29_RecordConsistent ==
    \A k \in DOMAIN SessionAttendance :
        LET r == SessionAttendance[k]
        IN  /\ r.IsLate <=> (r.ArrivalDelayMinutes # NULL
                             /\ r.ArrivalDelayMinutes > GraceOf(k[1]))
            /\ r.IsLate => r.IsPresent
            /\ r.IsPresent <=> (r.FirstSeenAt # NULL /\ r.LastSeenAt # NULL)

\* A record that finalize backfilled as absent (the student was charged the
\* one hour of the session) has since been hit by an event beyond the grace
\* period: late, present, both timestamps set.
C29_Witness ==
    /\ ClassSessions[1].Status = "finalized"
    /\ \E stu \in EnrolledIn(ClassSessions[1].CourseID) :
          /\ ChargedBy(1, stu) = 1
          /\ Cardinality({k \in DOMAIN SessionHourLog : k[1] = 1 /\ k[2] = stu}) = 1
          /\ SessionAttendance[<<1, stu>>].IsLate
          /\ SessionAttendance[<<1, stu>>].IsPresent
          /\ SessionAttendance[<<1, stu>>].ArrivalDelayMinutes > GraceOf(1)
          /\ SessionAttendance[<<1, stu>>].FirstSeenAt # NULL

(* ============================== C30 ==================================== *)
\* C30: no step removes a SessionAttendance or SessionHourLog row or turns a
\* present one absent; in every state an absent hour row has Source system
\* and a row with Source recognizer is present.
C30_PresenceMonotonic ==
    /\ [][/\ \A k \in DOMAIN SessionAttendance :
               /\ k \in DOMAIN SessionAttendance'
               /\ SessionAttendance[k].IsPresent => SessionAttendance'[k].IsPresent
          /\ \A k \in DOMAIN SessionHourLog :
               /\ k \in DOMAIN SessionHourLog'
               /\ SessionHourLog[k].IsPresent => SessionHourLog'[k].IsPresent
         ]_vars
    /\ [](\A k \in DOMAIN SessionHourLog :
            /\ ~SessionHourLog[k].IsPresent => SessionHourLog[k].Source = "system"
            /\ SessionHourLog[k].Source = "recognizer" => SessionHourLog[k].IsPresent)

\* A second finalize has returned for a session that has a present and an
\* absent record and both kinds of hour rows.
C30_Witness ==
    /\ last = "finalize_return_finalized"
    /\ \E k \in DOMAIN SessionAttendance : SessionAttendance[k].IsPresent
    /\ \E k \in DOMAIN SessionAttendance : ~SessionAttendance[k].IsPresent
    /\ \E k \in DOMAIN SessionHourLog :
          SessionHourLog[k].Source = "recognizer" /\ SessionHourLog[k].IsPresent
    /\ \E k \in DOMAIN SessionHourLog :
          SessionHourLog[k].Source = "system" /\ ~SessionHourLog[k].IsPresent

(* ============================== C23 ==================================== *)
\* C23: while the stream is running, a capture tick that gets to test the
\* socket's buffered amount (socket open, video ready, no encode pending)
\* and finds it above CAMERA_BUFFER_LIMIT starts no encode, sends nothing
\* and adds one to the drop counter; a tick while the socket is not open or
\* an encode is pending starts no encode and sends nothing; and in every
\* state at most one encode is in flight.
C23_TickDropsOrSkips ==
    /\ [][\A ready \in BOOLEAN :
            (CaptureTick(ready) /\ cameraActiveRef) =>
               /\ (/\ RefState = "OPEN"
                   /\ ready
                   /\ encodesInFlight = 0
                   /\ bufferedAmount > 3000000)
                  => /\ cameraDrops' = cameraDrops + 1
                     /\ encodesInFlight' = encodesInFlight
                     /\ bufferedAmount' = bufferedAmount
               /\ (RefState # "OPEN" \/ encodesInFlight > 0)
                  => /\ encodesInFlight' = encodesInFlight
                     /\ bufferedAmount' = bufferedAmount
         ]_vars
    /\ [](encodesInFlight <= 1)

\* A tick of a running stream has just dropped a frame: the buffer is above
\* the limit, the counter went from 0 to 1 and no encode is pending.
C23_Witness ==
    /\ cameraRunning
    /\ camLast = "dropped"
    /\ cameraDrops = 1
    /\ bufferedAmount > 3000000
    /\ encodesInFlight = 0

(* ============================== C31 ==================================== *)
\* C31: the step that finalizes an active session leaves every student
\* enrolled in its course with an attendance record of the session and an
\* hour row for every hour index in [0, total_hours) (the keys of the two
\* tables make each of them the only one), and adds between 0 and
\* total_hours hours to the student's HoursAbsentTotal.
C31_FinalizeCompletesRows ==
    [][\A sid \in SessionIds :
         Finalizes(sid) =>
            LET course == ClassSessions[sid].CourseID
                th == StatedTotalHours(ClassSessions'[sid].StartedAt,
                                       ClassSessions'[sid].EndedAt)
            IN  \A stu \in EnrolledIn(course) :
                   /\ <<sid, stu>> \in DOMAIN SessionAttendance'
                   /\ \A h \in 0..(th - 1) : <<sid, stu, h>> \in DOMAIN SessionHourLog'
                   /\ HoursAbsentTotal'[<<stu, course>>] - HoursAbsentTotal[<<stu, course>>]
                         \in 0..th
      ]_vars

(* ============================== C32 ==================================== *)
\* C32: a step that finalizes a session of course C leaves every other
\* session's row, every attendance record and hour row of every other
\* session, and the HoursAbsentTotal, UpdatedAt and grades of every
\* enrollment of another course as they were, and adds no record or hour
\* row to another session.
C32_FinalizeFrame ==
    [][\A sid \in SessionIds :
         Finalizes(sid) =>
            LET course == ClassSessions[sid].CourseID
            IN  /\ DOMAIN ClassSessions' = DOMAIN ClassSessions
                /\ \A other \in DOMAIN ClassSessions \ {sid} :
                      ClassSessions'[other] = ClassSessions[other]
                /\ {k \in DOMAIN SessionAttendance' : k[1] # sid}
                      = {k \in DOMAIN SessionAttendance : k[1] # sid}
                /\ \A k \in DOMAIN SessionAttendance :
                      k[1] # sid => SessionAttendance'[k] = SessionAttendance[k]
                /\ {k \in DOMAIN SessionHourLog' : k[1] # sid}
                      = {k \in DOMAIN SessionHourLog : k[1] # sid}
                /\ \A k \in DOMAIN SessionHourLog :
                      k[1] # sid => SessionHourLog'[k] = SessionHourLog[k]
                /\ \A e \in Enrollments :
                      e[2] # course =>
                         /\ HoursAbsentTotal'[e] = HoursAbsentTotal[e]
                         /\ UpdatedAt'[e] = UpdatedAt[e]
                         /\ Grades'[e] = Grades[e]
      ]_vars

\* Student 1, enrolled in both courses, has been charged for the finalized
\* session of one course while the session of the other course is still
\* active with the student's record, and that course's hours are untouched.
C32_Witness ==
    /\ last = "finalize_aggregated"
    /\ DOMAIN ClassSessions = {1, 2}
    /\ \E fin \in {1, 2}, act \in {1, 2} :
          /\ ClassSessions[fin].Status = "finalized"
          /\ ClassSessions[act].Status = "active"
          /\ ClassSessions[fin].CourseID # ClassSessions[act].CourseID
          /\ <<act, 1>> \in DOMAIN SessionAttendance
          /\ \E h \in 0..2 : <<act, 1, h>> \in DOMAIN SessionHourLog
          /\ HoursAbsentTotal[<<1, ClassSessions[fin].CourseID>>] > 0
          /\ HoursAbsentTotal[<<1, ClassSessions[act].CourseID>>] = 0

(* ============================== C33 ==================================== *)
\* C33: in every step that leaves the six grade components of an enrollment
\* as they were, the enrollment's AttendancePenalty does not decrease, its
\* AdjustedTotal does not increase, and AtRisk and AtRiskByPolicy stay true
\* where they were true.
C33_PenaltyMonotonic ==
    [][\A e \in Enrollments :
         Grades'[e] = Grades[e] =>
            /\ AttendancePenalty(HoursAbsentTotal'[e]) >= AttendancePenalty(HoursAbsentTotal[e])
            /\ AdjustedTotal(Grades'[e], HoursAbsentTotal'[e])
                  <= AdjustedTotal(Grades[e], HoursAbsentTotal[e])
            /\ AtRisk(Grades[e], HoursAbsentTotal[e])
                  => AtRisk(Grades'[e], HoursAbsentTotal'[e])
            /\ AtRiskByPolicy(Grades[e], HoursAbsentTotal[e], e[2])
                  => AtRiskByPolicy(Grades'[e], HoursAbsentTotal'[e], e[2])
      ]_vars

\* A finalize has taken an enrollment with a raw total of 70.00 from seven
\* to eight absent hours: the penalty rose from 1.75 to 2.00, the adjusted
\* total fell to 68.00 and AtRisk, false at seven hours, is now true.
C33_Witness ==
    /\ last = "finalize_aggregated"
    /\ now > 0
    /\ \E e \in Enrollments :
          /\ HoursAbsentTotal[e] = 8
          /\ SumOfComponents(Grades[e]) = 7000
          /\ AttendancePenalty(8) = 200
          /\ AttendancePenalty(7) = 175
          /\ AdjustedTotal(Grades[e], 8) = 6800
          /\ ~AtRisk(Grades[e], 7)
          /\ AtRisk(Grades[e], 8)

(* ============================== C34 ==================================== *)
\* C34: an event with recognized_at >= StartedAt that creates the record of
\* its (session, student) stores as ArrivalDelayMinutes the whole minutes
\* elapsed, floor((recognized_at - StartedAt) / 60) with both in seconds,
\* and marks the record late only if at least grace + 1 full minutes have
\* elapsed since the start.
C34_DelayIsWholeMinutes ==
    [][\A sid \in SessionIds, stu \in Students, t \in IngestEventInstants \cup {NULL} :
         LET at == IF t = NULL THEN now ELSE t
         IN  (/\ sid \in DOMAIN ClassSessions
              /\ <<sid, stu>> \notin DOMAIN SessionAttendance
              /\ at >= ClassSessions[sid].StartedAt
              /\ sp_UpsertAttendanceOnRecognition(sid, stu, t)
              /\ <<sid, stu>> \in DOMAIN SessionAttendance')
             =>
             LET elapsed == at - ClassSessions[sid].StartedAt
                 row == SessionAttendance'[<<sid, stu>>]
             IN  /\ row.ArrivalDelayMinutes = elapsed \div 60
                 /\ row.IsLate => elapsed >= (GraceOf(sid) + 1) * 60
      ]_vars

(* ============================== C35 ==================================== *)
\* C35: in every state at most one camera socket is connecting or open, and
\* the close event of a socket other than the one referenced leaves the
\* reference, the referenced socket and the stream flags as they were.
C35_OneCameraSocket ==
    /\ [](Cardinality({i \in DOMAIN sockets : sockets[i] \in {"CONNECTING", "OPEN"}}) <= 1)
    /\ [][\A id \in 1..MaxSockets :
            (WsOnClose(id) /\ cameraWsRef # 0 /\ cameraWsRef # id) =>
               /\ cameraWsRef' = cameraWsRef
               /\ sockets'[cameraWsRef] = sockets[cameraWsRef]
               /\ cameraActiveRef' = cameraActiveRef
               /\ cameraRunning' = cameraRunning
         ]_vars

(* ============================== C36 ==================================== *)
\* C36: stopCamera leaves the timer, media stream and socket references
\* cleared and cameraRunning false; called again in that state it changes
\* none of the hook's state; and while an encode that was pending when
\* stopCamera ran has not called back, and when it does, no frame is handed
\* to a socket.
C36_StopIsFinal ==
    /\ [][stopCamera =>
            (~cameraTimerRef' /\ ~mediaStreamRef' /\ cameraWsRef' = 0 /\ ~cameraRunning')
         ]_vars
    /\ [][(/\ stopCamera
           /\ ~cameraTimerRef /\ ~mediaStreamRef /\ cameraWsRef = 0
           /\ ~cameraRunning /\ ~cameraActiveRef)
          => UNCHANGED <<sockets, cameraWsRef, cameraTimerRef, intervals, mediaPending,
                         mediaStreamRef, cameraActiveRef, cameraRunning, sendBusyRef,
                         bufferedAmount, cameraDrops, encodesInFlight>>
         ]_vars
    /\ [][staleEncode => bufferedAmount' <= bufferedAmount]_vars

(* ============================== C37 ==================================== *)
\* C37: in every state at most one dashboard socket is connecting or open
\* and at most one ping interval is set, and dashboardWsState is not
\* 'disconnected' while the socket dashboardWsRef holds is open.
C37_DashboardStateFollowsSocket ==
    /\ Cardinality({i \in DOMAIN dashSockets :
                       dashSockets[i] \in {"CONNECTING", "OPEN"}}) <= 1
    /\ pingIntervals <= 1
    /\ (dashboardWsRef # 0 /\ dashSockets[dashboardWsRef] = "OPEN")
          => dashboardWsState # "disconnected"

(* ============================== C38 ==================================== *)
\* C38: a finalizeSession call that settles leaves busy.finalizing false,
\* clears sessionId where the request succeeded and keeps it and rethrows
\* where it failed; sessionId is cleared by no other step; finalizeSession
\* with an empty sessionId and startSession with an empty courseId return
\* null and change no state of the hook.
C38_FinalizeClearsOnSuccess ==
    /\ [][\A c \in CallSlots, ok \in BOOLEAN :
            FinalizeSettles(c, ok) =>
               /\ ~busy'.finalizing
               /\ ok => (sessionId' = 0 /\ sessLast' = "finalize_resolved")
               /\ ~ok => (sessionId' = sessionId /\ sessLast' = "finalize_rejected")
         ]_vars
    /\ [][(sessionId # 0 /\ sessionId' = 0) => sessLast' = "finalize_resolved"]_vars
    /\ [][\A c \in CallSlots :
            (finalizeSession(c) /\ sessionId = 0) =>
               /\ sessLast' = "finalize_null"
               /\ UNCHANGED <<sessionId, busy, attendance, calls>>
         ]_vars
    /\ [][\A c \in CallSlots :
            startSession(c, 0) =>
               /\ sessLast' = "start_null"
               /\ UNCHANGED <<sessionId, busy, attendance, calls>>
         ]_vars

\* A finalize request has failed: the session id is still held, the error
\* went to the caller, nothing is pending and busy.finalizing is false.
C38_Witness ==
    /\ sessLast = "finalize_rejected"
    /\ sessionId # 0
    /\ ~busy.finalizing
    /\ \A c \in CallSlots : calls[c].kind = "idle"
====
